---- MODULE Spec2Model ----
(***************************************************************************)
(* D3Q19 lattice Boltzmann update kernel of the LatticeBoltzmannNotebooks  *)
(* repository, in its four notebook variants:                              *)
(*   "part_000"       src/unnamed/part_000   (BGK, fully periodic roll)    *)
(*   "part_001"       src/unnamed/part_001   (BGK, stress / force / drag)  *)
(*   "LBM_in_3D"      src/Tutorials/LBM_in_3D.ipynb        (BGK)           *)
(*   "MRT_LBM_in_3D"  src/Tutorials/MRT_LBM_in_3D.ipynb    (MRT)           *)
(* Floating point numbers are modelled as exact rationals <<n, d>>, d > 0, *)
(* in lowest terms, extended with the IEEE non-finite values               *)
(* +inf = <<1,0>>, -inf = <<-1,0>> and NaN = <<0,0>> (signed zeros and     *)
(* rounding are not modelled).                                             *)
(***************************************************************************)
EXTENDS Integers, Sequences, FiniteSets, TLC

-----------------------------------------------------------------------------
(* Bounds of the model *)
NX == 3
NY == 3
NZ == 2
MaxSeed == 1
MaxIter == 2

-----------------------------------------------------------------------------
(* Exact arithmetic standing for float64 *)

Abs(n) == IF n < 0 THEN -n ELSE n

Sgn(n) == IF n < 0 THEN -1 ELSE IF n > 0 THEN 1 ELSE 0

RECURSIVE GCD(_, _)
GCD(a, b) == IF b = 0 THEN a ELSE GCD(b, a % b)

Zero == <<0, 1>>
One == <<1, 1>>
NaN == <<0, 0>>

Finite(a) == a[2] # 0

Norm(n, d) ==
  IF n = 0 THEN Zero
  ELSE LET g == GCD(Abs(n), Abs(d))
       IN <<Sgn(d) * (n \div g), Abs(d) \div g>>

R(n, d) == Norm(n, d)

I(n) == <<n, 1>>

RNeg(a) == <<-a[1], a[2]>>

RAdd(a, b) ==
  IF a[2] # 0 /\ b[2] # 0
  THEN IF a[2] = b[2]
       THEN Norm(a[1] + b[1], a[2])
       ELSE LET g == GCD(a[2], b[2])
            IN Norm(a[1] * (b[2] \div g) + b[1] * (a[2] \div g),
                    (a[2] \div g) * b[2])
  ELSE IF a[2] = 0 /\ b[2] = 0 THEN (IF a = b THEN a ELSE NaN)
  ELSE IF a[2] = 0 THEN a ELSE b

RSub(a, b) == RAdd(a, RNeg(b))

RMul(a, b) ==
  IF a[2] # 0 /\ b[2] # 0
  THEN IF a[1] = 0 \/ b[1] = 0 THEN Zero
       ELSE LET g1 == GCD(Abs(a[1]), b[2])
                g2 == GCD(Abs(b[1]), a[2])
            IN <<(a[1] \div g1) * (b[1] \div g2), (a[2] \div g2) * (b[2] \div g1)>>
  ELSE <<Sgn(a[1]) * Sgn(b[1]), 0>>

RInv(a) ==
  IF a[2] = 0 THEN (IF a[1] = 0 THEN NaN ELSE Zero)
  ELSE IF a[1] = 0 THEN <<1, 0>>
  ELSE <<Sgn(a[1]) * a[2], Abs(a[1])>>

RDiv(a, b) == RMul(a, RInv(b))

RECURSIVE RSumRange(_, _, _)
RSumRange(arr, lo, hi) ==
  IF lo > hi THEN Zero
  ELSE IF lo = hi THEN arr[lo]
  ELSE RAdd(RSumRange(arr, lo, (lo + hi) \div 2), RSumRange(arr, (lo + hi) \div 2 + 1, hi))

(* jnp.sum over a 0-based array (the order of summation is immaterial in   *)
(* exact arithmetic)                                                        *)
RSum(arr) == RSumRange(arr, 0, Cardinality(DOMAIN arr) - 1)

(* an array held as an explicit table of its elements *)
Table(f) == f @@ <<>>

-----------------------------------------------------------------------------
(* Lattice model *)

Variants == {"part_000", "part_001", "LBM_in_3D", "MRT_LBM_in_3D"}

N_DISCRETE_VELOCITIES == 19

Q == 0 .. N_DISCRETE_VELOCITIES - 1

Idx0(s) == [i \in Q |-> s[i + 1]]

LayoutA(v) == v \in {"part_000", "LBM_in_3D"}

LATTICE_INDICES == Idx0(<<0, 1, 2, 3, 4, 5, 6, 7, 8, 9, 10, 11, 12, 13, 14, 15, 16, 17, 18>>)

LATICE_VELOCITIES_X(v) ==
  IF LayoutA(v)
  THEN Idx0(<<0, 1, 0, -1, 0, 0, 0, 1, -1, -1, 1, 1, -1, -1, 1, 0, 0, 0, 0>>)
  ELSE Idx0(<<0, 1, -1, 0, 0, 0, 0, 1, -1, 1, -1, 1, -1, 1, -1, 0, 0, 0, 0>>)

LATICE_VELOCITIES_Y(v) ==
  IF LayoutA(v)
  THEN Idx0(<<0, 0, 1, 0, -1, 0, 0, 1, 1, -1, -1, 0, 0, 0, 0, 1, -1, -1, 1>>)
  ELSE Idx0(<<0, 0, 0, 1, -1, 0, 0, 1, 1, -1, -1, 0, 0, 0, 0, 1, -1, 1, -1>>)

LATICE_VELOCITIES_Z(v) ==
  Idx0(<<0, 0, 0, 0, 0, 1, -1, 0, 0, 0, 0, 1, 1, -1, -1, 1, 1, -1, -1>>)

LATTICE_VELOCITIES(v) ==
  [d \in 0 .. 2 |-> IF d = 0 THEN LATICE_VELOCITIES_X(v)
                    ELSE IF d = 1 THEN LATICE_VELOCITIES_Y(v)
                    ELSE LATICE_VELOCITIES_Z(v)]

(* variant that lists the edge weights before the face weights *)
LATTICE_WEIGHTS_EdgesFirst ==
  [i \in Q |-> IF i = 0 THEN R(1, 3) ELSE IF i <= 12 THEN R(1, 36) ELSE R(1, 18)]

LATTICE_WEIGHTS ==
  [i \in Q |-> IF i = 0 THEN R(1, 3) ELSE IF i <= 6 THEN R(1, 18) ELSE R(1, 36)]

Min(S) == CHOOSE m \in S : \A n \in S : m <= n

(* jnp.where(cond)[0] listed in increasing order, as a 0-based array *)
WhereArr(S) ==
  LET RECURSIVE Ord(_)
      Ord(T) == IF T = {} THEN <<>> ELSE <<Min(T)>> \o Ord(T \ {Min(T)})
      s == Ord(S)
  IN [k \in 0 .. Len(s) - 1 |-> s[k + 1]]

ArrOf(s) == [k \in 0 .. Len(s) - 1 |-> s[k + 1]]

Elems(arr) == {arr[k] : k \in DOMAIN arr}

NegationMatches(v, i) ==
  {j \in Q : \A d \in 0 .. 2 : LATTICE_VELOCITIES(v)[d][j] = -LATTICE_VELOCITIES(v)[d][i]}

(* variant that uses the hard-coded table with either ordering of the velocities *)
OPPOSITE_LATTICE_INDICES_HardCodedOnly(v) ==
  Idx0(<<0, 3, 4, 1, 2, 6, 5, 9, 10, 7, 8, 13, 14, 11, 12, 17, 18, 15, 16>>)

OPPOSITE_LATTICE_INDICES(v) ==
  IF LayoutA(v)
  THEN Idx0(<<0, 3, 4, 1, 2, 6, 5, 9, 10, 7, 8, 13, 14, 11, 12, 17, 18, 15, 16>>)
  ELSE [i \in Q |-> Min(NegationMatches(v, i))]

(* variant that uses the indices of the computed ordering in either ordering *)
RIGHT_VELOCITIES_OtherOrdering(v) == ArrOf(<<1, 7, 9, 11, 13>>)

RIGHT_VELOCITIES(v) ==
  IF LayoutA(v) THEN ArrOf(<<1, 7, 10, 11, 14>>)
  ELSE WhereArr({i \in Q : LATICE_VELOCITIES_X(v)[i] = 1})

LEFT_VELOCITIES(v) ==
  IF LayoutA(v) THEN ArrOf(<<3, 8, 9, 12, 13>>)
  ELSE WhereArr({i \in Q : LATICE_VELOCITIES_X(v)[i] = -1})

YZ_VELOCITIES(v) ==
  IF LayoutA(v) THEN ArrOf(<<0, 2, 4, 5, 6, 15, 16, 17, 18>>)
  ELSE WhereArr({i \in Q : LATICE_VELOCITIES_X(v)[i] = 0})

-----------------------------------------------------------------------------
(* Moment transform of the MRT notebook *)

M ==
  ArrOf(<<
    Idx0(<<  1,  1,  1,  1,  1,  1,  1,  1,  1,  1,  1,  1,  1,  1,  1,  1,  1,  1,  1>>),
    Idx0(<<-30,-11,-11,-11,-11,-11,-11,  8,  8,  8,  8,  8,  8,  8,  8,  8,  8,  8,  8>>),
    Idx0(<< 12, -4, -4, -4, -4, -4, -4,  1,  1,  1,  1,  1,  1,  1,  1,  1,  1,  1,  1>>),
    Idx0(<<  0,  1, -1,  0,  0,  0,  0,  1, -1,  1, -1,  1, -1,  1, -1,  0,  0,  0,  0>>),
    Idx0(<<  0, -4,  4,  0,  0,  0,  0,  1, -1,  1, -1,  1, -1,  1, -1,  0,  0,  0,  0>>),
    Idx0(<<  0,  0,  0,  1, -1,  0,  0,  1,  1, -1, -1,  0,  0,  0,  0,  1, -1,  1, -1>>),
    Idx0(<<  0,  0,  0, -4,  4,  0,  0,  1,  1, -1, -1,  0,  0,  0,  0,  1, -1,  1, -1>>),
    Idx0(<<  0,  0,  0,  0,  0,  1, -1,  0,  0,  0,  0,  1,  1, -1, -1,  1,  1, -1, -1>>),
    Idx0(<<  0,  0,  0,  0,  0, -4,  4,  0,  0,  0,  0,  1,  1, -1, -1,  1,  1, -1, -1>>),
    Idx0(<<  0,  2,  2, -1, -1, -1, -1,  1,  1,  1,  1,  1,  1,  1,  1, -2, -2, -2, -2>>),
    Idx0(<<  0, -4, -4,  2,  2,  2,  2,  1,  1,  1,  1,  1,  1,  1,  1, -2, -2, -2, -2>>),
    Idx0(<<  0,  0,  0,  1,  1, -1, -1,  1,  1,  1,  1, -1, -1, -1, -1,  0,  0,  0,  0>>),
    Idx0(<<  0,  0,  0, -2, -2,  2,  2,  1,  1,  1,  1, -1, -1, -1, -1,  0,  0,  0,  0>>),
    Idx0(<<  0,  0,  0,  0,  0,  0,  0,  1, -1, -1,  1,  0,  0,  0,  0,  0,  0,  0,  0>>),
    Idx0(<<  0,  0,  0,  0,  0,  0,  0,  0,  0,  0,  0,  0,  0,  0,  0,  1, -1, -1,  1>>),
    Idx0(<<  0,  0,  0,  0,  0,  0,  0,  0,  0,  0,  0,  1, -1, -1,  1,  0,  0,  0,  0>>),
    Idx0(<<  0,  0,  0,  0,  0,  0,  0,  1, -1,  1, -1, -1,  1, -1,  1,  0,  0,  0,  0>>),
    Idx0(<<  0,  0,  0,  0,  0,  0,  0, -1, -1,  1,  1,  0,  0,  0,  0,  1, -1,  1, -1>>),
    Idx0(<<  0,  0,  0,  0,  0,  0,  0,  0,  0,  0,  0,  1,  1, -1, -1, -1, -1,  1,  1>>)
  >>)

(* jnp.linalg.inv(M): the rows of M are mutually orthogonal, so the exact   *)
(* inverse is the transpose with row k divided by its squared norm          *)
RowNorm2(k) == RSum([q \in Q |-> I(M[k][q] * M[k][q])])

M_inv == Table([p \in Q |-> Table([k \in Q |-> RDiv(I(M[k][p]), RowNorm2(k))])])

s1 == R(119, 100)
s2 == R(7, 5)
s10 == R(7, 5)
s4 == R(6, 5)
s16 == R(99, 50)

(* variant of the diagonal that relaxes the x momentum as well *)
S_diag_MomentumRelaxed(w) ==
  Idx0(<<Zero, s1, s2, s4, s4, Zero, s4, Zero, s4, w, s10, w, s10, w, w, w, s16, s16, s16>>)

(* diagonal of S = jnp.eye(19) * jnp.array([...]) for relaxation rate w *)
S_diag(w) ==
  Idx0(<<Zero, s1, s2, Zero, s4, Zero, s4, Zero, s4, w, s10, w, s10, w, w, w, s16, s16, s16>>)

(* variant of the operator product that takes the transpose of M for its   *)
(* inverse                                                                  *)
MatMulDiag_TransposeForInverse(A, diag, B) ==
  Table([p \in Q |-> Table([q \in Q |->
     RSum([k \in Q |-> RMul(RMul(I(B[k][p]), diag[k]), I(B[k][q]))])])])

MatMulDiag(A, diag, B) ==
  Table([p \in Q |-> Table([q \in Q |->
     RSum([k \in Q |-> RMul(RMul(A[p][k], diag[k]), I(B[k][q]))])])])

(* M_inv @ S @ M *)
COLLISION_OPERATOR(w) == MatMulDiag(M_inv, Table(S_diag(w)), M)

RELAXATION_OMEGA_OF(nu) == RDiv(One, RAdd(RMul(I(3), nu), R(1, 2)))

(* the lattice tables of a notebook variant, looked up once per step *)
Lattice(v) ==
  [variant |-> v,
   e |-> Table([d \in 0 .. 2 |-> Table(LATTICE_VELOCITIES(v)[d])]),
   opposite |-> Table(OPPOSITE_LATTICE_INDICES(v)),
   right |-> Elems(RIGHT_VELOCITIES(v)),
   left |-> Elems(LEFT_VELOCITIES(v)),
   yz |-> Elems(YZ_VELOCITIES(v))]

-----------------------------------------------------------------------------
(* Grid and fields *)

Xs == 0 .. NX - 1
Ys == 0 .. NY - 1
Zs == 0 .. NZ - 1

Cells == Xs \X Ys \X Zs

(* Macroscopic / equilibrium computator *)

get_density(dv) == Table([c \in Cells |-> RSum(dv[c])])

MomentumCell(e, pops) ==
  [d \in 0 .. 2 |-> RSum([q \in Q |-> RMul(pops[q], I(e[d][q]))])]

get_macroscopic_velocities(L, dv, density) ==
  Table([c \in Cells |->
     Table([d \in 0 .. 2 |-> RDiv(MomentumCell(L.e, dv[c])[d], density[c])])])

(* jnp.linalg.norm(u, ord=2) ** 2: the square root and the square cancel in *)
(* exact arithmetic                                                         *)
MagnitudeSquared(u) == RSum([d \in 0 .. 2 |-> RMul(u[d], u[d])])

EquilibriumTerm(e, u, m2, rho, q) ==
  LET p == RSum([d \in 0 .. 2 |-> RMul(I(e[d][q]), u[d])])
  IN RMul(RMul(rho, LATTICE_WEIGHTS[q]),
          RSub(RAdd(RAdd(One, RMul(I(3), p)), RMul(R(9, 2), RMul(p, p))),
               RMul(R(3, 2), m2)))

EquilibriumCell(e, u, m2, rho) == Table([q \in Q |-> EquilibriumTerm(e, u, m2, rho, q)])

get_equilibrium_discrete_velocities(L, macroscopic_velocities, density) ==
  Table([c \in Cells |->
     EquilibriumCell(L.e, macroscopic_velocities[c],
                     MagnitudeSquared(macroscopic_velocities[c]), density[c])])

-----------------------------------------------------------------------------
(* The sub-steps of update *)

(* variant of the outflow copy that copies every direction of the plane *)
OutflowBC_AllDirections(L, dv) ==
  Table([c \in Cells |->
     IF c[1] = NX - 1 THEN dv[<<NX - 2, c[2], c[3]>>] ELSE dv[c]])

(* (1) .at[-1, ..., LEFT_VELOCITIES].set(dv[-2, ..., LEFT_VELOCITIES]) *)
OutflowBC(L, dv) ==
  Table([c \in Cells |->
     IF c[1] = NX - 1
     THEN Table([q \in Q |-> IF q \in L.left
                              THEN dv[<<NX - 2, c[2], c[3]>>][q]
                              ELSE dv[c][q]])
     ELSE dv[c]])

(* variant of the inlet velocity that imposes only the x component in every *)
(* notebook                                                                 *)
InletVelocity_XOnly(L, u, profile, hiv) ==
  Table([c \in Cells |->
     IF c[1] = 0
     THEN Table([d \in 0 .. 2 |-> IF d = 0 THEN hiv ELSE u[c][d]])
     ELSE u[c]])

(* (3) velocity imposed on the plane x = 0 *)
InletVelocity(L, u, profile, hiv) ==
  Table([c \in Cells |->
     IF c[1] = 0
     THEN IF L.variant = "LBM_in_3D"
          THEN Table([d \in 0 .. 2 |-> IF d = 0 THEN hiv ELSE u[c][d]])
          ELSE profile[c]
     ELSE u[c]])

(* get_density of the populations selected by an index array *)
SumOver(S, pops) ==
  RSum([q \in Q |-> IF q \in S THEN pops[q] ELSE Zero])

(* variant of the density reconstruction that counts the left-going         *)
(* populations once                                                         *)
ReconstructedDensity_SingleLeft(L, pops, ux) ==
  LET lateral_densities == SumOver(L.yz, pops)
      left_densities == SumOver(L.left, pops)
  IN RDiv(RAdd(lateral_densities, left_densities), RSub(One, ux))

ReconstructedDensity(L, pops, ux) ==
  LET lateral_densities == SumOver(L.yz, pops)
      left_densities == SumOver(L.left, pops)
  IN RDiv(RAdd(lateral_densities, RMul(I(2), left_densities)), RSub(One, ux))

(* (3) density reconstructed on the plane x = 0 *)
InletDensity(L, dv, u, density) ==
  Table([c \in Cells |->
     IF c[1] = 0 THEN ReconstructedDensity(L, dv[c], u[c][0]) ELSE density[c]])

(* variant of the inlet step that leaves the incoming populations alone *)
InletOverwrite_None(L, dv, eq) == Table([c \in Cells |-> dv[c]])

(* (3) .at[0, ..., RIGHT_VELOCITIES].set(equilibrium[0, ..., RIGHT_VELOCITIES]) *)
InletOverwrite(L, dv, eq) ==
  Table([c \in Cells |->
     IF c[1] = 0
     THEN Table([q \in Q |-> IF q \in L.right THEN eq[c][q] ELSE dv[c][q]])
     ELSE dv[c]])

(* variant of the BGK collision that adds the equilibrium unscaled *)
CollideBGK_UnscaledEquilibrium(dv, eq, w) ==
  Table([c \in Cells |->
     Table([q \in Q |-> RAdd(RSub(dv[c][q], RMul(w, dv[c][q])), eq[c][q])])])

(* (5) BGK *)
CollideBGK(dv, eq, w) ==
  Table([c \in Cells |->
     Table([q \in Q |-> RSub(dv[c][q], RMul(w, RSub(dv[c][q], eq[c][q])))])])

(* variant of the MRT collision that relaxes the populations themselves *)
MRTCell_OnPopulations(C, pops, neq) ==
  Table([p \in Q |-> RSub(pops[p], RSum([q \in Q |-> RMul(pops[q], C[p][q])]))])

(* (5) MRT: einsum('...Q, PQ -> ...P', dv - eq, COLLISION_OPERATOR) *)
MRTCell(C, pops, neq) ==
  Table([p \in Q |-> RSub(pops[p], RSum([q \in Q |-> RMul(neq[q], C[p][q])]))])

CollideMRT(dv, eq, C) ==
  Table([c \in Cells |->
     MRTCell(C, dv[c], Table([q \in Q |-> RSub(dv[c][q], eq[c][q])]))])

Collide(L, dv, eq, w) ==
  IF L.variant = "MRT_LBM_in_3D" THEN CollideMRT(dv, eq, COLLISION_OPERATOR(w))
  ELSE CollideBGK(dv, eq, w)

(* variant of the bounce-back pass that does not reverse the direction *)
BounceBackStep_SameDirection(L, post, dv, mask, i) ==
  Table([c \in Cells |->
     IF c \in mask
     THEN Table([q \in Q |-> IF q = LATTICE_INDICES[i] THEN dv[c][i] ELSE post[c][q]])
     ELSE post[c]])

(* (6) one pass of the bounce-back loop *)
BounceBackStep(L, post, dv, mask, i) ==
  Table([c \in Cells |->
     IF c \in mask
     THEN Table([q \in Q |-> IF q = LATTICE_INDICES[i] THEN dv[c][L.opposite[i]]
                              ELSE post[c][q]])
     ELSE post[c]])

RECURSIVE BounceBackLoop(_, _, _, _, _)
BounceBackLoop(L, post, dv, mask, n) ==
  IF n = 0 THEN post
  ELSE BounceBackStep(L, BounceBackLoop(L, post, dv, mask, n - 1), dv, mask, n - 1)

(* variant of the bounce-back that reflects the collided populations *)
BounceBack_FromPostCollision(L, post, dv, mask) ==
  BounceBackLoop(L, post, post, mask, N_DISCRETE_VELOCITIES)

BounceBack(L, post, dv, mask) == BounceBackLoop(L, post, dv, mask, N_DISCRETE_VELOCITIES)

(* variant of the roll that repeats the edge instead of wrapping around *)
RollAxis_Clamped(a, shift, axis) ==
  LET Clamp(k, n) == IF k < 0 THEN 0 ELSE IF k > n - 1 THEN n - 1 ELSE k
  IN Table([c \in Cells |->
        a[<<IF axis = 0 THEN Clamp(c[1] - shift, NX) ELSE c[1],
            IF axis = 1 THEN Clamp(c[2] - shift, NY) ELSE c[2],
            IF axis = 2 THEN Clamp(c[3] - shift, NZ) ELSE c[3]>>]])

(* jnp.roll of a scalar grid along one axis: out[k] = a[(k - shift) mod n] *)
RollAxis(a, shift, axis) ==
  Table([c \in Cells |->
     a[<<IF axis = 0 THEN (c[1] - shift) % NX ELSE c[1],
         IF axis = 1 THEN (c[2] - shift) % NY ELSE c[2],
         IF axis = 2 THEN (c[3] - shift) % NZ ELSE c[3]>>]])

(* variant of the roll that slices the next direction of the field *)
Rolled_NextDirection(post, e, i) ==
  RollAxis(RollAxis(RollAxis(Table([c \in Cells |-> post[c][(i + 1) % N_DISCRETE_VELOCITIES]]),
                             e[0][i], 0), e[1][i], 1), e[2][i], 2)

(* direction i of the field, rolled along axes 0, 1, 2 by the shift e[:, i] *)
Rolled(post, e, i) ==
  RollAxis(RollAxis(RollAxis(Table([c \in Cells |-> post[c][i]]),
                             e[0][i], 0), e[1][i], 1), e[2][i], 2)

(* a static index past the end of an axis is clamped to the last element *)
ClampZ(i) == IF i < NZ THEN i ELSE NZ - 1

(* variant of the pass that writes the plane x = 0 as well *)
StreamStepWith_AllPlanes(L, streamed, rolled, i) ==
  Table([c \in Cells |->
     IF L.variant \in {"part_000", "part_001"}
     THEN Table([q \in Q |-> IF q = i THEN rolled[c] ELSE streamed[c][q]])
     ELSE Table([q \in Q |-> IF q = i THEN rolled[<<c[1], c[2], ClampZ(i)>>]
                              ELSE streamed[c][q]])])

StreamStepWith(L, streamed, rolled, i) ==
  Table([c \in Cells |->
     IF L.variant = "part_000"
     THEN Table([q \in Q |-> IF q = i THEN rolled[c] ELSE streamed[c][q]])
     ELSE IF c[1] = 0 THEN streamed[c]
     ELSE IF L.variant = "part_001"
     THEN Table([q \in Q |-> IF q = i THEN rolled[c] ELSE streamed[c][q]])
     ELSE Table([q \in Q |-> IF q = i THEN rolled[<<c[1], c[2], ClampZ(i)>>]
                              ELSE streamed[c][q]])])

(* variant of the pass that rolls, for direction i, what the pass before has *)
(* written for direction i - 1 into the result                              *)
StreamStep_ReadsWritten(L, streamed, post, e, i) ==
  StreamStepWith(L, streamed,
                 Rolled(IF i = 0 THEN post
                        ELSE Table([c \in Cells |->
                               [q \in Q |-> streamed[c][IF q = i THEN i - 1 ELSE q]]]),
                        e, i), i)

(* (7) one pass of the streaming loop, with the velocity table e *)
StreamStep(L, streamed, post, e, i) == StreamStepWith(L, streamed, Rolled(post, e, i), i)

RECURSIVE StreamLoop(_, _, _, _, _)
StreamLoop(L, streamed, post, e, n) ==
  IF n = 0 THEN streamed
  ELSE StreamStep(L, StreamLoop(L, streamed, post, e, n - 1), post, e, n - 1)

Stream(L, post, e) == StreamLoop(L, post, post, e, N_DISCRETE_VELOCITIES)

(* update as one function of its argument: the sub-steps composed in the   *)
(* order of the source. Each operator receives the arrays computed so far  *)
(* and looks at the newest one before it goes on, so that every array is    *)
(* computed once, when its statement is reached.                            *)
UpdateStream(L, bounced) ==
  IF DOMAIN bounced = Cells THEN Stream(L, bounced, L.e) ELSE bounced

UpdateBounceBack(L, post, dv2, mask) ==
  IF DOMAIN post = Cells THEN UpdateStream(L, BounceBack(L, post, dv2, mask)) ELSE post

UpdateCollide(L, dv2, eq, mask, w) ==
  IF DOMAIN dv2 = Cells THEN UpdateBounceBack(L, Collide(L, dv2, eq, w), dv2, mask) ELSE dv2

UpdateEquilibrium(L, dv1, eq, mask, w) ==
  IF DOMAIN eq = Cells THEN UpdateCollide(L, InletOverwrite(L, dv1, eq), eq, mask, w) ELSE eq

UpdateInletDensity(L, dv1, u2, rho2, mask, w) ==
  IF DOMAIN rho2 = Cells
  THEN UpdateEquilibrium(L, dv1, get_equilibrium_discrete_velocities(L, u2, rho2), mask, w)
  ELSE dv1

UpdateInlet(L, dv1, u2, rho1, mask, w) ==
  IF DOMAIN u2 = Cells
  THEN UpdateInletDensity(L, dv1, u2, InletDensity(L, dv1, u2, rho1), mask, w)
  ELSE dv1

UpdateVelocities(L, dv1, u1, rho1, mask, w, profile, hiv) ==
  IF DOMAIN u1 = Cells
  THEN UpdateInlet(L, dv1, InletVelocity(L, u1, profile, hiv), rho1, mask, w)
  ELSE dv1

UpdateMoments(L, dv1, rho1, mask, w, profile, hiv) ==
  IF DOMAIN rho1 = Cells
  THEN UpdateVelocities(L, dv1, get_macroscopic_velocities(L, dv1, rho1), rho1, mask, w,
                        profile, hiv)
  ELSE dv1

UpdateOutflow(L, dv1, mask, w, profile, hiv) ==
  IF DOMAIN dv1 = Cells
  THEN UpdateMoments(L, dv1, get_density(dv1), mask, w, profile, hiv)
  ELSE dv1

UpdateL(L, dv0, mask, w, profile, hiv) ==
  UpdateOutflow(L, OutflowBC(L, dv0), mask, w, profile, hiv)

update(v, dv0, mask, w, profile, hiv) == UpdateL(Lattice(v), dv0, mask, w, profile, hiv)

-----------------------------------------------------------------------------
(* Setup and inputs *)

Noisy(v) == v \in {"LBM_in_3D", "MRT_LBM_in_3D"}

(* variant of the profile that leaves the noise out *)
VELOCITY_PROFILE_OF_Unperturbed(v, hiv, noise) ==
  Table([c \in Cells |-> Table([d \in 0 .. 2 |-> IF d = 0 THEN hiv ELSE Zero])])

VELOCITY_PROFILE_OF(v, hiv, noise) ==
  Table([c \in Cells |-> Table([d \in 0 .. 2 |->
     IF d = 0 THEN (IF Noisy(v) THEN RAdd(hiv, noise[<<c[2], c[3]>>]) ELSE hiv)
     ELSE Zero])])

Ones == [c \in Cells |-> One]

Viscosities == {R(1, 6), R(1, 18)}

InflowVelocities == {R(1, 5)}

NoiseFields ==
  {[yz \in Ys \X Zs |-> Zero],
   [yz \in Ys \X Zs |-> R(((yz[1] + 2 * yz[2]) % 3) - 1, 10)]}

Centre == <<NX \div 2, NY \div 2, NZ \div 2>>

Masks == {{}, {Centre}, {<<0, 0, 0>>, <<NX - 1, NY - 1, NZ - 1>>}}

(* seed 0: the field the notebooks start from; other seeds: arbitrary      *)
(* positive populations                                                    *)
InputField(v, hiv, noise, seed) ==
  IF seed = 0
  THEN get_equilibrium_discrete_velocities(Lattice(v), VELOCITY_PROFILE_OF(v, hiv, noise), Ones)
  ELSE [c \in Cells |-> [q \in Q |->
          I(1 + ((seed * c[1] + 2 * c[2] + (seed + 2) * c[3] + (seed + 1) * q
                  + c[1] * c[2] * q) % 3))]]

-----------------------------------------------------------------------------
(* Stress, momentum exchange and force of src/unnamed/part_001 *)

(* the cell with row-major position k *)
CellAt(k) == <<k \div (NY * NZ), (k \div NZ) % NY, k % NZ>>

(* variant of the velocity products that squares the row component *)
CACB_RowSquared(L) ==
  Table([b \in 0 .. 2 |-> Table([a \in 0 .. 2 |->
     Table([q \in Q |-> L.e[b][q] * L.e[b][q]])])])

(* alpha, beta = jnp.meshgrid(jnp.arange(3), jnp.arange(3)): alpha[b][a] = a *)
(* and beta[b][a] = b, so CACB[b][a][q] = e[a][q] * e[b][q]                  *)
CACB(L) ==
  Table([b \in 0 .. 2 |-> Table([a \in 0 .. 2 |->
     Table([q \in Q |-> L.e[a][q] * L.e[b][q]])])])

(* (1 - RELAXATION_OMEGA / 2) * jnp.sum(CACB * non_equilibrium, axis = -1) *)
StressOfNonEquilibrium(cacb, non_equilibrium_discrete_velocities, w) ==
  Table([c \in Cells |-> Table([b \in 0 .. 2 |-> Table([a \in 0 .. 2 |->
     RMul(RSub(One, RDiv(w, I(2))),
          RSum([q \in Q |-> RMul(I(cacb[b][a][q]),
                                 non_equilibrium_discrete_velocities[c][q])]))])])])

NonEquilibrium(discrete_velocities, equilibrium) ==
  Table([c \in Cells |-> Table([q \in Q |->
     RSub(discrete_velocities[c][q], equilibrium[c][q])])])

get_stress_tensor(L, discrete_velocities, macroscopic_velocities, density, w) ==
  StressOfNonEquilibrium(
    CACB(L),
    NonEquilibrium(discrete_velocities,
                   get_equilibrium_discrete_velocities(L, macroscopic_velocities, density)),
    w)

(* stress_tensor / (2 * density * KINEMATIC_VISCOSITY_L) *)
StrainRateOfStress(stress_tensor, density, nu) ==
  Table([c \in Cells |-> Table([b \in 0 .. 2 |-> Table([a \in 0 .. 2 |->
     RDiv(stress_tensor[c][b][a], RMul(RMul(I(2), density[c]), nu))])])])

get_strain_rate_tensor_LB(L, discrete_velocities, macroscopic_velocities, density, w, nu) ==
  StrainRateOfStress(
    get_stress_tensor(L, discrete_velocities, macroscopic_velocities, density, w),
    density, nu)

(* the strain rate run plots: density and velocities of the new field, then *)
(* get_strain_rate_tensor_LB                                                *)
PlottedStrainRateOf(L, discrete_velocities_next, density, w, nu) ==
  get_strain_rate_tensor_LB(
    L, discrete_velocities_next,
    get_macroscopic_velocities(L, discrete_velocities_next, density), density, w, nu)

(* jnp.roll(a, (x, y, z), axis = (0, 1, 2)) *)
RollAll(a, x, y, z) == RollAxis(RollAxis(RollAxis(a, x, 0), y, 1), z, 2)

(* variant of the two writes that marks the outgoing populations at slot n *)
SetMasks_OwnSlot(masks, location_in, location_out, n, opp) ==
  [in |-> Table([c \in Cells |->
            IF location_in[c] THEN [masks.in[c] EXCEPT ![n] = TRUE] ELSE masks.in[c]]),
   out |-> Table([c \in Cells |->
            IF location_out[c] THEN [masks.out[c] EXCEPT ![n] = TRUE] ELSE masks.out[c]])]

(* .at[location_in, n].set(True) and .at[location_out, opp].set(True) *)
SetMasks(masks, location_in, location_out, n, opp) ==
  [in |-> Table([c \in Cells |->
            IF location_in[c] THEN [masks.in[c] EXCEPT ![n] = TRUE] ELSE masks.in[c]]),
   out |-> Table([c \in Cells |->
            IF location_out[c] THEN [masks.out[c] EXCEPT ![opp] = TRUE] ELSE masks.out[c]])]

(* jnp.logical_and(a, b) *)
LogicalAnd(a, b) == Table([c \in Cells |-> a[c] /\ b[c]])

(* variant of the loop body that shifts the obstacle mask the same way for  *)
(* the populations going out                                                *)
MomentumExchangeStep_SameShift(L, masks, obstacle, fluid, n) ==
  SetMasks(masks,
           LogicalAnd(RollAll(fluid, L.e[0][n], L.e[1][n], L.e[2][n]), obstacle),
           LogicalAnd(RollAll(obstacle, L.e[0][n], L.e[1][n], L.e[2][n]), fluid),
           n, L.opposite[n])

(* one pass of the loop over enumerate(LATTICE_VELOCITIES.T) *)
MomentumExchangeStep(L, masks, obstacle, fluid, n) ==
  SetMasks(masks,
           LogicalAnd(RollAll(fluid, L.e[0][n], L.e[1][n], L.e[2][n]), obstacle),
           LogicalAnd(RollAll(obstacle, -L.e[0][n], -L.e[1][n], -L.e[2][n]), fluid),
           n, L.opposite[n])

(* the for loop from its pass n on; each pass works on the arrays the pass  *)
(* before it has left, of shape (nx, ny, nz, 19)                            *)
RECURSIVE MomentumExchangeLoop(_, _, _, _, _)
MomentumExchangeLoop(L, masks, obstacle, fluid, n) ==
  IF n = N_DISCRETE_VELOCITIES \/ DOMAIN masks.in # Cells
  THEN masks
  ELSE MomentumExchangeLoop(L, MomentumExchangeStep(L, masks, obstacle, fluid, n),
                            obstacle, fluid, n + 1)

(* the cell that builds MOMENTUM_EXCHANGE_MASK_IN and _OUT from the all-False *)
(* arrays                                                                    *)
MomentumExchangeMasks(L, mask) ==
  MomentumExchangeLoop(L, [in |-> [c \in Cells |-> [q \in Q |-> FALSE]],
                           out |-> [c \in Cells |-> [q \in Q |-> FALSE]]],
                       Table([c \in Cells |-> c \in mask]),
                       Table([c \in Cells |-> c \notin mask]), 0)

(* variant of the force that weighs the outgoing populations with their own *)
(* velocity                                                                 *)
get_force_OwnVelocity(L, discrete_velocities, mask_in, mask_out) ==
  [d \in 0 .. 2 |->
     RSum([k \in 0 .. NX * NY * NZ - 1 |->
        RSum([q \in Q |->
           RAdd(IF mask_in[CellAt(k)][q]
                THEN RMul(I(L.e[d][q]), discrete_velocities[CellAt(k)][q]) ELSE Zero,
                IF mask_out[CellAt(k)][q]
                THEN RMul(I(L.e[d][q]), discrete_velocities[CellAt(k)][q])
                ELSE Zero)])])]

(* the selected rows of both products, summed over axis 0 *)
get_force(L, discrete_velocities, mask_in, mask_out) ==
  [d \in 0 .. 2 |->
     RSum([k \in 0 .. NX * NY * NZ - 1 |->
        RSum([q \in Q |->
           RAdd(IF mask_in[CellAt(k)][q]
                THEN RMul(I(L.e[d][q]), discrete_velocities[CellAt(k)][q]) ELSE Zero,
                IF mask_out[CellAt(k)][q]
                THEN RMul(I(L.e[d][L.opposite[q]]), discrete_velocities[CellAt(k)][q])
                ELSE Zero)])])]

-----------------------------------------------------------------------------
(* State *)

VARIABLES
  variant, lattice_velocities, opposite_lattice_indices, OBSTACLE_MASK,
  KINEMATIC_VISCOSITY, HORIZONTAL_INFLOW_VELOCITY, NOISE, N_ITERATIONS,
  MOMENTUM_EXCHANGE_MASK_IN, MOMENTUM_EXCHANGE_MASK_OUT,
  PLOT_EVERY_N_STEPS, SKIP_FIRST_N_ITERATIONS,
  run_discrete_velocities_prev, i, pc,
  discrete_velocities_prev, density_prev, macroscopic_velocities_prev,
  equilibrium_discrete_velocities, discrete_velocities_post_collision,
  discrete_velocities_streamed,
  horizontal_force, plotted, strain_rate_tensor_LB, returned

setup == <<variant, lattice_velocities, opposite_lattice_indices, OBSTACLE_MASK,
           KINEMATIC_VISCOSITY, HORIZONTAL_INFLOW_VELOCITY, NOISE, N_ITERATIONS,
           MOMENTUM_EXCHANGE_MASK_IN, MOMENTUM_EXCHANGE_MASK_OUT,
           PLOT_EVERY_N_STEPS, SKIP_FIRST_N_ITERATIONS>>

(* what the loop of run leaves behind: the force of the last field, the     *)
(* loop indices at which it plotted, the strain rate it plotted last and    *)
(* the value run returned                                                   *)
outputs == <<horizontal_force, plotted, strain_rate_tensor_LB, returned>>

vars == <<setup, run_discrete_velocities_prev, i, pc,
          discrete_velocities_prev, density_prev, macroscopic_velocities_prev,
          equilibrium_discrete_velocities, discrete_velocities_post_collision,
          discrete_velocities_streamed, outputs>>

RELAXATION_OMEGA == RELAXATION_OMEGA_OF(KINEMATIC_VISCOSITY)

VELOCITY_PROFILE == VELOCITY_PROFILE_OF(variant, HORIZONTAL_INFLOW_VELOCITY, NOISE)

Unset == <<>>

(* the lattice cell of the notebook has been run *)
LatticeBuilt ==
  /\ lattice_velocities = LATTICE_VELOCITIES(variant)
  /\ opposite_lattice_indices = OPPOSITE_LATTICE_INDICES(variant)

(* the momentum exchange cell of part_001 has been run *)
MasksAre(masks) ==
  /\ MOMENTUM_EXCHANGE_MASK_IN = masks.in
  /\ MOMENTUM_EXCHANGE_MASK_OUT = masks.out

MasksBuilt ==
  IF variant = "part_001"
  THEN MasksAre(MomentumExchangeMasks(Lattice("part_001"), OBSTACLE_MASK))
  ELSE MasksAre([in |-> Unset, out |-> Unset])

(* run has not been called *)
NoOutputs ==
  /\ horizontal_force = Unset
  /\ plotted = {}
  /\ strain_rate_tensor_LB = Unset
  /\ returned = Unset

(* a plot after every iteration *)
PlotAlways ==
  /\ PLOT_EVERY_N_STEPS = 1
  /\ SKIP_FIRST_N_ITERATIONS = 0

(* no plot within the run *)
PlotNever ==
  /\ PLOT_EVERY_N_STEPS = 1
  /\ SKIP_FIRST_N_ITERATIONS = N_ITERATIONS + 1

SetupInit ==
  /\ variant \in Variants
  /\ LatticeBuilt
  /\ OBSTACLE_MASK \in Masks
  /\ KINEMATIC_VISCOSITY \in Viscosities
  /\ HORIZONTAL_INFLOW_VELOCITY \in InflowVelocities
  /\ NOISE \in NoiseFields
  /\ N_ITERATIONS \in 1 .. MaxIter

(* a spatially uniform field that is not an equilibrium *)
UniformField == [c \in Cells |-> [q \in Q |-> I(1 + ((q * q) % 3))]]

(* the fields update is applied to *)
InputFields(v, hiv, noise) ==
  {InputField(v, hiv, noise, seed) : seed \in 0 .. MaxSeed} \cup {UniformField}

(* Runs of more than one iteration start from the steady channel flow: the *)
(* uniform equilibrium without obstacle and without noise, which update     *)
(* maps to itself; from other inputs the exact fractions outgrow TLC's      *)
(* integers within two iterations.                                          *)
Steady(dv) ==
  /\ dv = InputField(variant, HORIZONTAL_INFLOW_VELOCITY, NOISE, 0)
  /\ OBSTACLE_MASK = {}
  /\ \A yz \in Ys \X Zs : NOISE[yz] = Zero

(* The run plots where the exact fractions of the plotted strain rate stay *)
(* within TLC's integers: from the initial field of the notebooks and from  *)
(* the uniform field without obstacle.                                      *)
Plottable(dv) ==
  /\ \A seed \in 1 .. MaxSeed :
        dv # InputField(variant, HORIZONTAL_INFLOW_VELOCITY, NOISE, seed)
  /\ dv = UniformField => OBSTACLE_MASK = {}

(* The force on an obstacle is computed from the initial field of the       *)
(* notebooks, from the uniform field and from the first of the other        *)
(* fields: from the further ones the exact fractions of the sum over the    *)
(* boundary of the obstacle outgrow TLC's integers.                         *)
ForceRepresentable(dv) ==
  variant = "part_001" /\ OBSTACLE_MASK # {} =>
    \A seed \in 2 .. MaxSeed :
       dv # InputField(variant, HORIZONTAL_INFLOW_VELOCITY, NOISE, seed)

Init ==
  /\ SetupInit
  /\ run_discrete_velocities_prev \in
       InputFields(variant, HORIZONTAL_INFLOW_VELOCITY, NOISE)
  /\ N_ITERATIONS > 1 => Steady(run_discrete_velocities_prev)
  /\ ForceRepresentable(run_discrete_velocities_prev)
  /\ IF Plottable(run_discrete_velocities_prev) THEN PlotAlways ELSE PlotNever
  /\ MasksBuilt
  /\ NoOutputs
  /\ i = 0
  /\ pc = "outflow"
  /\ discrete_velocities_prev = run_discrete_velocities_prev
  /\ density_prev = Unset
  /\ macroscopic_velocities_prev = Unset
  /\ equilibrium_discrete_velocities = Unset
  /\ discrete_velocities_post_collision = Unset
  /\ discrete_velocities_streamed = Unset

Outflow ==
  /\ pc = "outflow"
  /\ discrete_velocities_prev' = OutflowBC(Lattice(variant), discrete_velocities_prev)
  /\ pc' = "moments"
  /\ UNCHANGED <<setup, outputs, run_discrete_velocities_prev, i, density_prev,
                 macroscopic_velocities_prev, equilibrium_discrete_velocities,
                 discrete_velocities_post_collision, discrete_velocities_streamed>>

(* variant of the moments step that reads the field before the outflow copy *)
Moments_BeforeOutflow ==
  /\ pc = "moments"
  /\ density_prev' = get_density(run_discrete_velocities_prev)
  /\ macroscopic_velocities_prev' =
       get_macroscopic_velocities(Lattice(variant), run_discrete_velocities_prev, density_prev')
  /\ pc' = "inflow"
  /\ UNCHANGED <<setup, outputs, run_discrete_velocities_prev, i, discrete_velocities_prev,
                 equilibrium_discrete_velocities,
                 discrete_velocities_post_collision, discrete_velocities_streamed>>

Moments ==
  /\ pc = "moments"
  /\ density_prev' = get_density(discrete_velocities_prev)
  /\ macroscopic_velocities_prev' =
       get_macroscopic_velocities(Lattice(variant), discrete_velocities_prev, density_prev')
  /\ pc' = "inflow"
  /\ UNCHANGED <<setup, outputs, run_discrete_velocities_prev, i, discrete_velocities_prev,
                 equilibrium_discrete_velocities,
                 discrete_velocities_post_collision, discrete_velocities_streamed>>

InflowDirichlet ==
  /\ pc = "inflow"
  /\ macroscopic_velocities_prev' =
       InletVelocity(Lattice(variant), macroscopic_velocities_prev, VELOCITY_PROFILE,
                     HORIZONTAL_INFLOW_VELOCITY)
  /\ density_prev' =
       InletDensity(Lattice(variant), discrete_velocities_prev, macroscopic_velocities_prev',
                    density_prev)
  /\ pc' = "equilibrium"
  /\ UNCHANGED <<setup, outputs, run_discrete_velocities_prev, i, discrete_velocities_prev,
                 equilibrium_discrete_velocities,
                 discrete_velocities_post_collision, discrete_velocities_streamed>>

Equilibrium ==
  /\ pc = "equilibrium"
  /\ equilibrium_discrete_velocities' =
       get_equilibrium_discrete_velocities(Lattice(variant), macroscopic_velocities_prev,
                                           density_prev)
  /\ pc' = "overwrite"
  /\ UNCHANGED <<setup, outputs, run_discrete_velocities_prev, i, discrete_velocities_prev,
                 density_prev, macroscopic_velocities_prev,
                 discrete_velocities_post_collision, discrete_velocities_streamed>>

InflowOverwrite ==
  /\ pc = "overwrite"
  /\ discrete_velocities_prev' =
       InletOverwrite(Lattice(variant), discrete_velocities_prev, equilibrium_discrete_velocities)
  /\ pc' = "collide"
  /\ UNCHANGED <<setup, outputs, run_discrete_velocities_prev, i, density_prev,
                 macroscopic_velocities_prev, equilibrium_discrete_velocities,
                 discrete_velocities_post_collision, discrete_velocities_streamed>>

Collision ==
  /\ pc = "collide"
  /\ discrete_velocities_post_collision' =
       Collide(Lattice(variant), discrete_velocities_prev, equilibrium_discrete_velocities,
               RELAXATION_OMEGA)
  /\ pc' = "bounce"
  /\ UNCHANGED <<setup, outputs, run_discrete_velocities_prev, i, discrete_velocities_prev,
                 density_prev, macroscopic_velocities_prev,
                 equilibrium_discrete_velocities, discrete_velocities_streamed>>

BounceBackBC ==
  /\ pc = "bounce"
  /\ discrete_velocities_post_collision' =
       BounceBack(Lattice(variant), discrete_velocities_post_collision, discrete_velocities_prev,
                  OBSTACLE_MASK)
  /\ pc' = "stream"
  /\ UNCHANGED <<setup, outputs, run_discrete_velocities_prev, i, discrete_velocities_prev,
                 density_prev, macroscopic_velocities_prev,
                 equilibrium_discrete_velocities, discrete_velocities_streamed>>

Streaming ==
  /\ pc = "stream"
  /\ discrete_velocities_streamed' =
       Stream(Lattice(variant), discrete_velocities_post_collision, Lattice(variant).e)
  /\ pc' = "return"
  /\ UNCHANGED <<setup, outputs, run_discrete_velocities_prev, i, discrete_velocities_prev,
                 density_prev, macroscopic_velocities_prev,
                 equilibrium_discrete_velocities, discrete_velocities_post_collision>>

(* i % PLOT_EVERY_N_STEPS == 0 and i > SKIP_FIRST_N_ITERATIONS - PLOT_EVERY_N_STEPS *)
PlotCondition(k) ==
  k % PLOT_EVERY_N_STEPS = 0 /\ k > SKIP_FIRST_N_ITERATIONS - PLOT_EVERY_N_STEPS

(* the value of a function that ends in a bare return *)
None == <<"None">>

(* return discrete_velocities_next in part_001 and MRT_LBM_in_3D, a bare    *)
(* return in part_000 and LBM_in_3D                                         *)
ReturnValue(v, discrete_velocities_next) ==
  IF v \in {"part_001", "MRT_LBM_in_3D"} THEN discrete_velocities_next ELSE None

(* the rest of the loop body of run after the call of update, and the end   *)
(* of the loop: the force on the obstacle (part_001), the plot when the     *)
(* index is due, the next iteration or the return                           *)
Return ==
  /\ pc = "return"
  /\ run_discrete_velocities_prev' = discrete_velocities_streamed
  /\ i' = i + 1
  /\ horizontal_force' =
       IF variant = "part_001"
       THEN get_force(Lattice(variant), discrete_velocities_streamed,
                      MOMENTUM_EXCHANGE_MASK_IN, MOMENTUM_EXCHANGE_MASK_OUT)[0]
       ELSE horizontal_force
  /\ IF PlotCondition(i)
     THEN /\ plotted' = plotted \cup {i}
          /\ strain_rate_tensor_LB' =
               IF variant = "part_001"
               THEN PlottedStrainRateOf(Lattice(variant), discrete_velocities_streamed,
                                        get_density(discrete_velocities_streamed),
                                        RELAXATION_OMEGA, KINEMATIC_VISCOSITY)
               ELSE strain_rate_tensor_LB
     ELSE UNCHANGED <<plotted, strain_rate_tensor_LB>>
  /\ IF i + 1 < N_ITERATIONS
     THEN /\ pc' = "outflow"
          /\ discrete_velocities_prev' = discrete_velocities_streamed
          /\ density_prev' = Unset
          /\ macroscopic_velocities_prev' = Unset
          /\ equilibrium_discrete_velocities' = Unset
          /\ discrete_velocities_post_collision' = Unset
          /\ discrete_velocities_streamed' = Unset
          /\ returned' = returned
     ELSE /\ pc' = "done"
          /\ returned' = ReturnValue(variant, discrete_velocities_streamed)
          /\ UNCHANGED <<discrete_velocities_prev, density_prev,
                         macroscopic_velocities_prev, equilibrium_discrete_velocities,
                         discrete_velocities_post_collision,
                         discrete_velocities_streamed>>
  /\ UNCHANGED setup

Next ==
  \/ Outflow
  \/ Moments
  \/ InflowDirichlet
  \/ Equilibrium
  \/ InflowOverwrite
  \/ Collision
  \/ BounceBackBC
  \/ Streaming
  \/ Return

Spec == Init /\ [][Next]_vars

-----------------------------------------------------------------------------
(* The notebooks run whatever the setup cells hold: no setup cell and no    *)
(* step of update or run checks a parameter or a field. Runs from setups    *)
(* with a viscosity or an inflow velocity outside the physical range:       *)

InvalidViscosities == {Zero, R(-1, 18)}

InvalidInflowVelocities == {One, I(2)}

UncheckedInit ==
  /\ variant \in Variants
  /\ LatticeBuilt
  /\ PlotAlways
  /\ OBSTACLE_MASK = {}
  /\ MasksBuilt
  /\ NoOutputs
  /\ KINEMATIC_VISCOSITY \in Viscosities \cup InvalidViscosities
  /\ HORIZONTAL_INFLOW_VELOCITY \in InflowVelocities \cup InvalidInflowVelocities
  /\ \/ KINEMATIC_VISCOSITY \in InvalidViscosities
     \/ HORIZONTAL_INFLOW_VELOCITY \in InvalidInflowVelocities
  /\ NOISE = [yz \in Ys \X Zs |-> Zero]
  /\ N_ITERATIONS \in 1 .. MaxIter
  /\ run_discrete_velocities_prev =
       InputField(variant, HORIZONTAL_INFLOW_VELOCITY, NOISE, 0)
  /\ i = 0
  /\ pc = "outflow"
  /\ discrete_velocities_prev = run_discrete_velocities_prev
  /\ density_prev = Unset
  /\ macroscopic_velocities_prev = Unset
  /\ equilibrium_discrete_velocities = Unset
  /\ discrete_velocities_post_collision = Unset
  /\ discrete_velocities_streamed = Unset

UncheckedSpec == UncheckedInit /\ [][Next]_vars

-----------------------------------------------------------------------------
(* The lattice cell on its own, run on a velocity table in which one        *)
(* direction has been given another vector: how each notebook obtains       *)
(* OPPOSITE_LATTICE_INDICES from the table, and whether run is reached.     *)

Components == {-1, 0, 1}

(* the table e with direction q replaced by the vector vec *)
EditedTable(e, q, vec) ==
  [d \in 0 .. 2 |-> [p \in Q |-> IF p = q THEN vec[d + 1] ELSE e[d][p]]]

(* jnp.where((e.T == -e[:, q]).all(axis = 1))[0] *)
NegationMatchesIn(e, q) == {j \in Q : \A d \in 0 .. 2 : e[d][j] = -e[d][q]}

(* the outcome of a cell that ends in an exception *)
Raised == <<"error">>

(* The notebooks with a literal OPPOSITE_LATTICE_INDICES keep it whatever   *)
(* the table holds. The others stack the 19 match arrays with jnp.array and *)
(* take .T[0]: arrays of unequal length, and an index 0 into no matches,    *)
(* raise, which ends the cell.                                              *)
BuildOpposite(v, e) ==
  IF LayoutA(v) THEN OPPOSITE_LATTICE_INDICES(v)
  ELSE IF /\ \A p \in Q : Cardinality(NegationMatchesIn(e, p)) =
                           Cardinality(NegationMatchesIn(e, 0))
          /\ NegationMatchesIn(e, 0) # {}
       THEN [p \in Q |-> Min(NegationMatchesIn(e, p))]
       ELSE Raised

LatticeInit ==
  /\ variant \in Variants
  /\ \E q \in Q : \E vec \in Components \X Components \X Components :
       lattice_velocities = EditedTable(LATTICE_VELOCITIES(variant), q, vec)
  /\ opposite_lattice_indices = Unset
  /\ pc = "lattice"
  /\ PlotAlways
  /\ MOMENTUM_EXCHANGE_MASK_IN = Unset
  /\ MOMENTUM_EXCHANGE_MASK_OUT = Unset
  /\ NoOutputs
  /\ OBSTACLE_MASK = {}
  /\ KINEMATIC_VISCOSITY \in Viscosities
  /\ HORIZONTAL_INFLOW_VELOCITY \in InflowVelocities
  /\ NOISE = [yz \in Ys \X Zs |-> Zero]
  /\ N_ITERATIONS = 1
  /\ i = 0
  /\ run_discrete_velocities_prev = Unset
  /\ discrete_velocities_prev = Unset
  /\ density_prev = Unset
  /\ macroscopic_velocities_prev = Unset
  /\ equilibrium_discrete_velocities = Unset
  /\ discrete_velocities_post_collision = Unset
  /\ discrete_velocities_streamed = Unset

(* the assignment of OPPOSITE_LATTICE_INDICES in the lattice cell *)
LatticeCell ==
  /\ pc = "lattice"
  /\ opposite_lattice_indices' = BuildOpposite(variant, lattice_velocities)
  /\ pc' = IF opposite_lattice_indices' = Raised THEN "error" ELSE "built"
  /\ UNCHANGED <<variant, lattice_velocities, OBSTACLE_MASK, KINEMATIC_VISCOSITY,
                 HORIZONTAL_INFLOW_VELOCITY, NOISE, N_ITERATIONS,
                 MOMENTUM_EXCHANGE_MASK_IN, MOMENTUM_EXCHANGE_MASK_OUT,
                 PLOT_EVERY_N_STEPS, SKIP_FIRST_N_ITERATIONS, outputs,
                 run_discrete_velocities_prev, i, discrete_velocities_prev, density_prev,
                 macroscopic_velocities_prev, equilibrium_discrete_velocities,
                 discrete_velocities_post_collision, discrete_velocities_streamed>>

(* the following cells run and the notebook calls run *)
CallRun ==
  /\ pc = "built"
  /\ pc' = "run"
  /\ UNCHANGED <<setup, outputs, run_discrete_velocities_prev, i, discrete_velocities_prev,
                 density_prev, macroscopic_velocities_prev,
                 equilibrium_discrete_velocities, discrete_velocities_post_collision,
                 discrete_velocities_streamed>>

LatticeNext ==
  \/ LatticeCell
  \/ CallRun

LatticeSpec == LatticeInit /\ [][LatticeNext]_vars

-----------------------------------------------------------------------------
(* Collision and streaming on their own: the kernel of update without       *)
(* obstacle, inflow or outflow, applied to a field f; after a streaming     *)
(* the field may also be streamed back with the reversed velocity table.    *)

NegatedVelocities(e) == Table([d \in 0 .. 2 |-> Table([q \in Q |-> -e[d][q]])])

(* cells alternate between an equilibrium of a velocity with three non-zero *)
(* components and arbitrary positive populations                            *)
MixedField(v) ==
  [c \in Cells |->
     IF (c[1] + c[2] + c[3]) % 2 = 0
     THEN LET u == [d \in 0 .. 2 |-> IF d = 0 THEN R(1, 5)
                                      ELSE R(IF c[2] = 0 THEN 1 ELSE -1, 10)]
          IN EquilibriumCell(LATTICE_VELOCITIES(v), u, MagnitudeSquared(u), I(1 + c[3]))
     ELSE [q \in Q |-> I(1 + ((2 * q) % 3))]]

KernelFields(v, hiv, noise) ==
  InputFields(v, hiv, noise) \cup {MixedField(v)}

(* Repeated steps start from the spatially uniform field under the BGK     *)
(* collision, where the exact fractions stay within TLC's integers.         *)
RepeatableInput(v, dv) == dv = UniformField /\ v # "MRT_LBM_in_3D"

KernelInit ==
  /\ variant \in Variants
  /\ LatticeBuilt
  /\ PlotAlways
  /\ MOMENTUM_EXCHANGE_MASK_IN = Unset
  /\ MOMENTUM_EXCHANGE_MASK_OUT = Unset
  /\ NoOutputs
  /\ OBSTACLE_MASK = {}
  /\ KINEMATIC_VISCOSITY \in Viscosities
  /\ HORIZONTAL_INFLOW_VELOCITY \in InflowVelocities
  /\ NOISE \in NoiseFields
  /\ N_ITERATIONS \in 1 .. MaxIter
  /\ run_discrete_velocities_prev \in
       KernelFields(variant, HORIZONTAL_INFLOW_VELOCITY, NOISE)
  /\ N_ITERATIONS > 1 => RepeatableInput(variant, run_discrete_velocities_prev)
  /\ i = 0
  /\ pc = "moments"
  /\ discrete_velocities_prev = run_discrete_velocities_prev
  /\ density_prev = Unset
  /\ macroscopic_velocities_prev = Unset
  /\ equilibrium_discrete_velocities = Unset
  /\ discrete_velocities_post_collision = Unset
  /\ discrete_velocities_streamed = Unset

KernelMoments ==
  /\ pc = "moments"
  /\ density_prev' = get_density(discrete_velocities_prev)
  /\ macroscopic_velocities_prev' =
       get_macroscopic_velocities(Lattice(variant), discrete_velocities_prev, density_prev')
  /\ pc' = "equilibrium"
  /\ UNCHANGED <<setup, outputs, run_discrete_velocities_prev, i, discrete_velocities_prev,
                 equilibrium_discrete_velocities,
                 discrete_velocities_post_collision, discrete_velocities_streamed>>

KernelEquilibrium ==
  /\ pc = "equilibrium"
  /\ equilibrium_discrete_velocities' =
       get_equilibrium_discrete_velocities(Lattice(variant), macroscopic_velocities_prev,
                                           density_prev)
  /\ pc' = "collide"
  /\ UNCHANGED <<setup, outputs, run_discrete_velocities_prev, i, discrete_velocities_prev,
                 density_prev, macroscopic_velocities_prev,
                 discrete_velocities_post_collision, discrete_velocities_streamed>>

KernelCollision ==
  /\ pc = "collide"
  /\ discrete_velocities_post_collision' =
       Collide(Lattice(variant), discrete_velocities_prev, equilibrium_discrete_velocities,
               RELAXATION_OMEGA)
  /\ pc' = "stream"
  /\ UNCHANGED <<setup, outputs, run_discrete_velocities_prev, i, discrete_velocities_prev,
                 density_prev, macroscopic_velocities_prev,
                 equilibrium_discrete_velocities, discrete_velocities_streamed>>

KernelStreaming ==
  /\ pc = "stream"
  /\ discrete_velocities_streamed' =
       Stream(Lattice(variant), discrete_velocities_post_collision, Lattice(variant).e)
  /\ pc' = "return"
  /\ UNCHANGED <<setup, outputs, run_discrete_velocities_prev, i, discrete_velocities_prev,
                 density_prev, macroscopic_velocities_prev,
                 equilibrium_discrete_velocities, discrete_velocities_post_collision>>

(* the streamed field becomes the field of the next step *)
KernelReturn ==
  /\ pc = "return"
  /\ i + 1 < N_ITERATIONS
  /\ discrete_velocities_prev' = discrete_velocities_streamed
  /\ i' = i + 1
  /\ pc' = "moments"
  /\ density_prev' = Unset
  /\ macroscopic_velocities_prev' = Unset
  /\ equilibrium_discrete_velocities' = Unset
  /\ discrete_velocities_post_collision' = Unset
  /\ discrete_velocities_streamed' = Unset
  /\ UNCHANGED <<setup, outputs, run_discrete_velocities_prev>>

(* the streamed field is streamed once more, with the velocity table -V *)
KernelStreamingBack ==
  /\ pc = "return"
  /\ discrete_velocities_streamed' =
       Stream(Lattice(variant), discrete_velocities_streamed,
              NegatedVelocities(Lattice(variant).e))
  /\ pc' = "back"
  /\ UNCHANGED <<setup, outputs, run_discrete_velocities_prev, i, discrete_velocities_prev,
                 density_prev, macroscopic_velocities_prev,
                 equilibrium_discrete_velocities, discrete_velocities_post_collision>>

KernelNext ==
  \/ KernelMoments
  \/ KernelEquilibrium
  \/ KernelCollision
  \/ KernelStreaming
  \/ KernelReturn
  \/ KernelStreamingBack

KernelSpec == KernelInit /\ [][KernelNext]_vars

-----------------------------------------------------------------------------
(* Properties of update and run *)

e_x(q) == LATICE_VELOCITIES_X(variant)[q]
e_y(q) == LATICE_VELOCITIES_Y(variant)[q]
e_z(q) == LATICE_VELOCITIES_Z(variant)[q]

DirsWithX(k) == {q \in Q : e_x(q) = k}

SubStepOrder ==
  {<<"outflow", "moments">>, <<"moments", "inflow">>, <<"inflow", "equilibrium">>,
   <<"equilibrium", "overwrite">>, <<"overwrite", "collide">>, <<"collide", "bounce">>,
   <<"bounce", "stream">>, <<"stream", "return">>, <<"return", "outflow">>,
   <<"return", "done">>}

(* C1: in every variant one call of update runs outflow copy, moments,      *)
(* inlet velocity and density with equilibrium and inlet overwrite,         *)
(* collision, bounce-back and streaming in this fixed order, each sub-step  *)
(* reading the output of the one before, and the field it returns is the    *)
(* composition of the sub-steps in that order applied to its argument.      *)
C1_SubStepOrder ==
  [][/\ <<pc, pc'>> \in SubStepOrder
     /\ pc' = "return" =>
          discrete_velocities_streamed' =
            update(variant, run_discrete_velocities_prev, OBSTACLE_MASK, RELAXATION_OMEGA,
                   VELOCITY_PROFILE, HORIZONTAL_INFLOW_VELOCITY)]_vars

C1_Witness ==
  /\ pc = "return"
  /\ OBSTACLE_MASK # {}
  /\ discrete_velocities_streamed # run_discrete_velocities_prev
  /\ discrete_velocities_streamed # discrete_velocities_post_collision

(* C2: at every obstacle cell and for every direction i, the population     *)
(* handed to streaming in direction i is the pre-collision population (the  *)
(* field after the inlet overwrite) of direction OPPOSITE_LATTICE_INDICES[i]*)
(* at the same cell; at every other cell the collision result is unchanged. *)
C2_BounceBack ==
  [][pc = "bounce" =>
       /\ pc' = "stream"
       /\ \A c \in Cells :
            IF c \in OBSTACLE_MASK
            THEN \A q \in Q :
                   discrete_velocities_post_collision'[c][q] =
                     discrete_velocities_prev[c][OPPOSITE_LATTICE_INDICES(variant)[q]]
            ELSE discrete_velocities_post_collision'[c] =
                   discrete_velocities_post_collision[c]]_vars

C2_Witness ==
  /\ pc = "stream"
  /\ \E c \in OBSTACLE_MASK : \E q \in Q :
       /\ discrete_velocities_post_collision[c][q] # discrete_velocities_prev[c][q]
       /\ discrete_velocities_post_collision[c][q] =
            discrete_velocities_prev[c][OPPOSITE_LATTICE_INDICES(variant)[q]]
  /\ \E c \in Cells : c \notin OBSTACLE_MASK

(* C3 (as claimed): in every variant, after streaming, for every direction  *)
(* i with velocity (ex, ey, ez) and every cell (x, y, z) with x >= 1 and    *)
(* 0 <= x - ex <= nx - 1, the population of direction i is the              *)
(* post-collision population of direction i at                              *)
(* (x - ex, (y - ey) mod ny, (z - ez) mod nz).                              *)
C3_StreamingShift ==
  pc = "return" =>
    \A c \in Cells : \A q \in Q :
      (c[1] >= 1 /\ c[1] - e_x(q) >= 0 /\ c[1] - e_x(q) <= NX - 1) =>
        discrete_velocities_streamed[c][q] =
          discrete_velocities_post_collision[<<c[1] - e_x(q), (c[2] - e_y(q)) % NY,
                                               (c[3] - e_z(q)) % NZ>>][q]

(* C4: on the plane x = 0 the density is (sum of the populations with       *)
(* e_x = 0 + 2 * sum of the populations with e_x = -1) / (1 - u_x) with u_x *)
(* the imposed inlet x velocity; the populations with e_x = +1 on that      *)
(* plane are then replaced by the equilibrium of that density and the       *)
(* imposed velocity, and no other population is changed by the inlet step.  *)
ImposedInletUx(c) ==
  IF variant = "LBM_in_3D" THEN HORIZONTAL_INFLOW_VELOCITY ELSE VELOCITY_PROFILE[c][0]

C4_ZouHeInlet ==
  [][pc = "overwrite" =>
       \A c \in Cells :
         IF c[1] = 0
         THEN /\ macroscopic_velocities_prev[c][0] = ImposedInletUx(c)
              /\ density_prev[c] =
                   RDiv(RAdd(SumOver(DirsWithX(0), discrete_velocities_prev[c]),
                             RMul(I(2), SumOver(DirsWithX(-1), discrete_velocities_prev[c]))),
                        RSub(One, ImposedInletUx(c)))
              /\ \A q \in Q :
                   discrete_velocities_prev'[c][q] =
                     IF e_x(q) = 1
                     THEN EquilibriumTerm(LATTICE_VELOCITIES(variant),
                                          macroscopic_velocities_prev[c],
                                          MagnitudeSquared(macroscopic_velocities_prev[c]),
                                          density_prev[c], q)
                     ELSE discrete_velocities_prev[c][q]
         ELSE discrete_velocities_prev'[c] = discrete_velocities_prev[c]]_vars

C4_Witness ==
  /\ pc = "collide"
  /\ \E c \in Cells : \E q \in Q :
       /\ c[1] = 0
       /\ e_x(q) = 1
       /\ discrete_velocities_prev[c][q] = equilibrium_discrete_velocities[c][q]
       /\ discrete_velocities_prev[c][q] # run_discrete_velocities_prev[c][q]
       /\ density_prev[c] # RSum(discrete_velocities_prev[c])

(* C5 (as claimed): in every variant the velocity imposed on the plane      *)
(* x = 0 is VELOCITY_PROFILE at x = 0 in all three components.              *)
C5_InletVelocityIsProfile ==
  pc = "equilibrium" =>
    \A c \in Cells : c[1] = 0 =>
      \A d \in 0 .. 2 : macroscopic_velocities_prev[c][d] = VELOCITY_PROFILE[c][d]

(* C5 (amended): in part_000, part_001 and MRT_LBM_in_3D the velocity       *)
(* imposed on the plane x = 0 is VELOCITY_PROFILE at x = 0 in all three     *)
(* components; in LBM_in_3D only the x component is imposed, as             *)
(* HORIZONTAL_INFLOW_VELOCITY, and the y and z components stay the ones     *)
(* computed from the populations.                                           *)
C5_InletVelocity ==
  pc = "equilibrium" =>
    \A c \in Cells : c[1] = 0 =>
      IF variant = "LBM_in_3D"
      THEN /\ macroscopic_velocities_prev[c][0] = HORIZONTAL_INFLOW_VELOCITY
           /\ \A d \in 1 .. 2 :
                macroscopic_velocities_prev[c][d] =
                  RDiv(MomentumCell(LATTICE_VELOCITIES(variant),
                                    discrete_velocities_prev[c])[d],
                       RSum(discrete_velocities_prev[c]))
      ELSE \A d \in 0 .. 2 : macroscopic_velocities_prev[c][d] = VELOCITY_PROFILE[c][d]

C5_Witness ==
  /\ pc = "equilibrium"
  /\ variant = "LBM_in_3D"
  /\ \E c \in Cells :
       /\ c[1] = 0
       /\ macroscopic_velocities_prev[c][0] # VELOCITY_PROFILE[c][0]
       /\ macroscopic_velocities_prev[c][1] # Zero

(* C6: before density and velocity are computed, the populations with       *)
(* e_x = -1 on the plane x = nx - 1 are replaced by the same populations of *)
(* the plane x = nx - 2, and no other population is changed by that step.   *)
C6_OutflowCopy ==
  /\ pc \in {"moments", "inflow"} =>
       \A c \in Cells : \A q \in Q :
         discrete_velocities_prev[c][q] =
           IF c[1] = NX - 1 /\ e_x(q) = -1
           THEN run_discrete_velocities_prev[<<NX - 2, c[2], c[3]>>][q]
           ELSE run_discrete_velocities_prev[c][q]
  /\ pc = "inflow" =>
       \A c \in Cells :
         /\ density_prev[c] = RSum(discrete_velocities_prev[c])
         /\ \A d \in 0 .. 2 :
              macroscopic_velocities_prev[c][d] =
                RDiv(MomentumCell(LATTICE_VELOCITIES(variant),
                                  discrete_velocities_prev[c])[d], density_prev[c])

C6_Witness ==
  /\ pc = "inflow"
  /\ \E c \in Cells : \E q \in Q :
       /\ c[1] = NX - 1
       /\ e_x(q) = -1
       /\ discrete_velocities_prev[c][q] # run_discrete_velocities_prev[c][q]
       /\ density_prev[c] # RSum(run_discrete_velocities_prev[c])

(* A second input of update: the field dv with a added to the populations   *)
(* with e_x = -1 on the plane x = nx - 1 and b added to the populations     *)
(* with e_x = +1 on the plane x = 0, the entries a periodic x axis would    *)
(* wrap around.                                                             *)
WrapPerturbed(dv, a, b) ==
  [c \in Cells |-> [q \in Q |->
     IF c[1] = NX - 1 /\ e_x(q) = -1 THEN RAdd(dv[c][q], I(a * (1 + c[2] + (q % 2))))
     ELSE IF c[1] = 0 /\ e_x(q) = 1 THEN RAdd(dv[c][q], I(b * (1 + c[3] + (q % 3))))
     ELSE dv[c][q]]]

UpdateOf(dv) ==
  update(variant, dv, OBSTACLE_MASK, RELAXATION_OMEGA, VELOCITY_PROFILE,
         HORIZONTAL_INFLOW_VELOCITY)

(* C7 (as claimed): in every variant, two inputs of update that differ only *)
(* in the populations with e_x = -1 on the plane x = nx - 1 and in the      *)
(* populations with e_x = +1 on the plane x = 0 give the same field.        *)
C7_OpenXAxis ==
  (pc = "return" /\ i = 0) =>
    \A ab \in {<<1, 0>>, <<0, 1>>, <<2, 1>>} :
      UpdateOf(WrapPerturbed(run_discrete_velocities_prev, ab[1], ab[2])) =
        discrete_velocities_streamed

(* C7 (amended): in part_000, part_001 and MRT_LBM_in_3D two inputs of      *)
(* update that differ only in the populations with e_x = -1 on the plane    *)
(* x = nx - 1 and in the populations with e_x = +1 on the plane x = 0 give  *)
(* the same field; in LBM_in_3D this holds for inputs that differ only in   *)
(* the populations with e_x = -1 on the plane x = nx - 1.                   *)
C7_OpenXAxisAmended ==
  (pc = "return" /\ i = 0) =>
    \A ab \in IF variant = "LBM_in_3D" THEN {<<1, 0>>, <<2, 0>>}
              ELSE {<<0, 1>>, <<2, 1>>} :
      UpdateOf(WrapPerturbed(run_discrete_velocities_prev, ab[1], ab[2])) =
        discrete_velocities_streamed

C7_Witness ==
  /\ pc = "return"
  /\ i = 0
  /\ variant = "part_000"
  /\ OBSTACLE_MASK # {}
  /\ WrapPerturbed(run_discrete_velocities_prev, 2, 1) # run_discrete_velocities_prev
  /\ discrete_velocities_streamed # run_discrete_velocities_prev

(* jnp.sum of the whole field *)
TotalMass(dv) == RSum([k \in 0 .. NX * NY * NZ - 1 |-> RSum(dv[CellAt(k)])])

(* C8 (as claimed): with no obstacle and no inflow or outflow, collision    *)
(* followed by streaming, as implemented in each notebook variant, leaves   *)
(* the sum of all populations over all cells unchanged, for any number of   *)
(* repeated steps.                                                          *)
C8_MassConserved ==
  pc = "return" =>
    TotalMass(discrete_velocities_streamed) = TotalMass(run_discrete_velocities_prev)

(* C8 (amended): with no obstacle and no inflow or outflow, collision       *)
(* followed by the fully periodic streaming of part_000 leaves the sum of   *)
(* all populations over all cells unchanged, for any number of repeated     *)
(* steps; the streaming of the other variants, which does not write the     *)
(* plane x = 0, does not conserve it.                                       *)
C8_MassConservedPeriodic ==
  (pc = "return" /\ variant = "part_000") =>
    TotalMass(discrete_velocities_streamed) = TotalMass(run_discrete_velocities_prev)

C8_Witness ==
  /\ pc = "return"
  /\ variant = "part_000"
  /\ i >= 1
  /\ discrete_velocities_streamed # discrete_velocities_prev
  /\ discrete_velocities_streamed # run_discrete_velocities_prev

(* C9 (as claimed): streaming a field with the velocity table V and then    *)
(* streaming the result with -V restores the original field.                *)
C9_StreamRoundTrip ==
  pc = "back" => discrete_velocities_streamed = discrete_velocities_post_collision

(* C9 (amended): streaming a field with V and then with -V restores the     *)
(* original field under the fully periodic streaming of part_000; under the *)
(* streaming of part_001 it restores every population except those with     *)
(* e_x = +1 on the plane x = nx - 1 and those with e_x = -1 on the plane    *)
(* x = 1; under the streaming of the two tutorial notebooks only the plane  *)
(* x = 0, which streaming never writes, is certain to be restored.          *)
C9_StreamRoundTripAmended ==
  pc = "back" =>
    \A c \in Cells : \A q \in Q :
      \/ discrete_velocities_streamed[c][q] = discrete_velocities_post_collision[c][q]
      \/ /\ variant = "part_001"
         /\ \/ c[1] = NX - 1 /\ e_x(q) = 1
            \/ c[1] = 1 /\ e_x(q) = -1
      \/ /\ variant \in {"LBM_in_3D", "MRT_LBM_in_3D"}
         /\ c[1] # 0

C9_Witness ==
  /\ pc = "back"
  /\ variant = "part_001"
  /\ discrete_velocities_streamed # discrete_velocities_post_collision
  /\ \E c \in Cells : \E q \in Q :
       /\ c[1] = 1
       /\ e_x(q) = 1
       /\ e_y(q) # 0
       /\ discrete_velocities_post_collision[c][q] #
            discrete_velocities_post_collision[<<0, (c[2] - e_y(q)) % NY, c[3]>>][q]

(* C10: a population that equals the equilibrium computed from its own      *)
(* density and velocity is left unchanged by the collision, in the BGK and  *)
(* in the MRT form.                                                         *)
OwnEquilibrium(pops) ==
  LET rho == RSum(pops)
      u == [d \in 0 .. 2 |-> RDiv(MomentumCell(LATTICE_VELOCITIES(variant), pops)[d], rho)]
  IN EquilibriumCell(LATTICE_VELOCITIES(variant), u, MagnitudeSquared(u), rho)

C10_EquilibriumFixedPoint ==
  [][pc = "collide" =>
       \A c \in Cells :
         discrete_velocities_prev[c] = OwnEquilibrium(discrete_velocities_prev[c]) =>
           discrete_velocities_post_collision'[c] = discrete_velocities_prev[c]]_vars

C10_Witness ==
  /\ pc = "stream"
  /\ variant = "MRT_LBM_in_3D"
  /\ RELAXATION_OMEGA # One
  /\ \E c \in Cells :
       /\ discrete_velocities_prev[c] = OwnEquilibrium(discrete_velocities_prev[c])
       /\ macroscopic_velocities_prev[c][1] # Zero
       /\ discrete_velocities_post_collision[c] = discrete_velocities_prev[c]
  /\ \E c \in Cells :
       discrete_velocities_post_collision[c] # discrete_velocities_prev[c]

(* M_inv @ S @ M with every diagonal entry of S set to w *)
UniformRateOperator(w) == MatMulDiag(M_inv, Table([k \in Q |-> w]), M)

IsScaledIdentity(C, w) ==
  \A p \in Q : \A q \in Q : C[p][q] = IF p = q THEN w ELSE Zero

MRTAgreesWithBGK(C, w) ==
  /\ IsScaledIdentity(C, w)
  /\ CollideMRT(discrete_velocities_prev, equilibrium_discrete_velocities, C) =
       CollideBGK(discrete_velocities_prev, equilibrium_discrete_velocities, w)

(* C11: when every diagonal entry of S equals RELAXATION_OMEGA, the         *)
(* operator M_inv @ S @ M is RELAXATION_OMEGA times the identity and the    *)
(* MRT collision returns the same post-collision field as the BGK           *)
(* collision, for every field and equilibrium.                              *)
C11_MRTReducesToBGK ==
  pc = "collide" =>
    MRTAgreesWithBGK(UniformRateOperator(RELAXATION_OMEGA), RELAXATION_OMEGA)

C11_Witness ==
  /\ pc = "collide"
  /\ RELAXATION_OMEGA # One
  /\ discrete_velocities_prev # equilibrium_discrete_velocities
  /\ CollideBGK(discrete_velocities_prev, equilibrium_discrete_velocities, RELAXATION_OMEGA)
       # discrete_velocities_prev
  /\ COLLISION_OPERATOR(RELAXATION_OMEGA) # UniformRateOperator(RELAXATION_OMEGA)

(* ---- C12: a single obstacle cell in a uniform field ---- *)

IsUniform(dv) == \A c \in Cells : dv[c] = dv[Centre]

(* the cell one lattice step from c in direction q, periodic in all axes *)
Neighbour(c, q) ==
  <<(c[1] + e_x(q)) % NX, (c[2] + e_y(q)) % NY, (c[3] + e_z(q)) % NZ>>

SingleObstacleUpdate ==
  /\ pc = "return"
  /\ OBSTACLE_MASK = {Centre}
  /\ IsUniform(run_discrete_velocities_prev)

(* C12 (as claimed): with the obstacle mask holding only the centre cell    *)
(* and a spatially uniform input, the field returned by one full update has *)
(* at the obstacle cell, in every direction i, the input population of      *)
(* direction OPPOSITE_LATTICE_INDICES[i].                                   *)
C12_ObstaclePermuted ==
  SingleObstacleUpdate =>
    \A q \in Q :
      discrete_velocities_streamed[Centre][q] =
        run_discrete_velocities_prev[Centre][OPPOSITE_LATTICE_INDICES(variant)[q]]

(* C12 (amended): with the obstacle mask holding only the centre cell and a *)
(* spatially uniform input, the field handed to streaming has at the        *)
(* obstacle cell, in every direction i, the input population of direction   *)
(* OPPOSITE_LATTICE_INDICES[i]; in part_000 and part_001 the field returned *)
(* by the update holds that population in direction i one lattice step away *)
(* in direction i (in part_001 unless that cell lies on the plane x = 0,    *)
(* which streaming does not write).                                         *)
C12_ObstaclePermutedAmended ==
  SingleObstacleUpdate =>
    /\ \A q \in Q :
         discrete_velocities_post_collision[Centre][q] =
           run_discrete_velocities_prev[Centre][OPPOSITE_LATTICE_INDICES(variant)[q]]
    /\ variant \in {"part_000", "part_001"} =>
         \A q \in Q :
           (variant = "part_000" \/ Neighbour(Centre, q)[1] >= 1) =>
             discrete_velocities_streamed[Neighbour(Centre, q)][q] =
               run_discrete_velocities_prev[Centre][OPPOSITE_LATTICE_INDICES(variant)[q]]

C12_Witness ==
  /\ SingleObstacleUpdate
  /\ variant = "part_001"
  /\ run_discrete_velocities_prev = UniformField
  /\ \E q \in Q :
       /\ e_x(q) = 1
       /\ discrete_velocities_streamed[Centre][q] #
            run_discrete_velocities_prev[Centre][OPPOSITE_LATTICE_INDICES(variant)[q]]
       /\ discrete_velocities_streamed[Neighbour(Centre, q)][q] #
            run_discrete_velocities_prev[Centre][q]

(* ---- C13: the uniform equilibrium field ---- *)

(* every cell holds the equilibrium of one and the same density and velocity *)
UniformEquilibrium(dv, eq) == IsUniform(dv) /\ dv = eq

(* C13: without obstacle and boundary steps, a field in which every cell    *)
(* holds the equilibrium populations of one and the same density and        *)
(* velocity is returned unchanged by collision followed by streaming, and   *)
(* streaming returns every spatially uniform field unchanged.               *)
C13_UniformFixedPoint ==
  pc = "return" =>
    /\ IsUniform(discrete_velocities_post_collision) =>
         discrete_velocities_streamed = discrete_velocities_post_collision
    /\ UniformEquilibrium(discrete_velocities_prev, equilibrium_discrete_velocities) =>
         discrete_velocities_streamed = discrete_velocities_prev

C13_Witness ==
  /\ pc = "return"
  /\ variant \in {"part_000", "LBM_in_3D"}
  /\ UniformEquilibrium(discrete_velocities_prev, equilibrium_discrete_velocities)
  /\ macroscopic_velocities_prev[Centre][0] # Zero
  /\ \E p \in Q : \E q \in Q :
       discrete_velocities_prev[Centre][p] # discrete_velocities_prev[Centre][q]
  /\ discrete_velocities_streamed = discrete_velocities_prev

(* ---- C14, C15, C16: the lattice tables ---- *)

(* the velocity vector of direction q *)
VelocityVector(v, q) == <<LATTICE_VELOCITIES(v)[0][q], LATTICE_VELOCITIES(v)[1][q],
                          LATTICE_VELOCITIES(v)[2][q]>>

(* C14: in every variant OPPOSITE_LATTICE_INDICES is a permutation of       *)
(* 0..18, the velocity of OPPOSITE_LATTICE_INDICES[i] is the exact negative *)
(* of the velocity of i, the map is its own inverse and it maps direction 0 *)
(* to itself.                                                               *)
C14_OppositeIsNegation ==
  LET opp == OPPOSITE_LATTICE_INDICES(variant)
  IN /\ DOMAIN opp = Q
     /\ Elems(opp) = Q
     /\ \A q \in Q : \A d \in 1 .. 3 :
          VelocityVector(variant, opp[q])[d] = -VelocityVector(variant, q)[d]
     /\ \A q \in Q : opp[opp[q]] = q
     /\ opp[0] = 0

C14_Witness ==
  /\ pc = "stream"
  /\ OBSTACLE_MASK # {}
  /\ variant = "part_001"
  /\ OPPOSITE_LATTICE_INDICES(variant)[7] = 10
  /\ VelocityVector(variant, 7) = <<1, 1, 0>>
  /\ VelocityVector(variant, 10) = <<-1, -1, 0>>

(* C15: in every variant RIGHT_VELOCITIES, LEFT_VELOCITIES and              *)
(* YZ_VELOCITIES are the sets of directions with x-component +1, -1 and 0;  *)
(* they are pairwise disjoint, have 5, 5 and 9 elements, cover 0..18, and   *)
(* the opposite map sends RIGHT onto LEFT and YZ onto YZ.                   *)
C15_DirectionSets ==
  LET right == RIGHT_VELOCITIES(variant)
      left == LEFT_VELOCITIES(variant)
      yz == YZ_VELOCITIES(variant)
      opp == OPPOSITE_LATTICE_INDICES(variant)
  IN /\ Elems(right) = {q \in Q : LATICE_VELOCITIES_X(variant)[q] = 1}
     /\ Elems(left) = {q \in Q : LATICE_VELOCITIES_X(variant)[q] = -1}
     /\ Elems(yz) = {q \in Q : LATICE_VELOCITIES_X(variant)[q] = 0}
     /\ Elems(right) \cap Elems(left) = {}
     /\ Elems(right) \cap Elems(yz) = {}
     /\ Elems(left) \cap Elems(yz) = {}
     /\ DOMAIN right = 0 .. 4 /\ Cardinality(Elems(right)) = 5
     /\ DOMAIN left = 0 .. 4 /\ Cardinality(Elems(left)) = 5
     /\ DOMAIN yz = 0 .. 8 /\ Cardinality(Elems(yz)) = 9
     /\ Elems(right) \cup Elems(left) \cup Elems(yz) = Q
     /\ {opp[q] : q \in Elems(right)} = Elems(left)
     /\ {opp[q] : q \in Elems(yz)} = Elems(yz)

C15_Witness ==
  /\ pc = "equilibrium"
  /\ variant = "LBM_in_3D"
  /\ Elems(RIGHT_VELOCITIES(variant)) = {1, 7, 10, 11, 14}
  /\ Elems(LEFT_VELOCITIES(variant)) = {3, 8, 9, 12, 13}
  /\ OPPOSITE_LATTICE_INDICES(variant)[10] = 8

(* number of non-zero components of the velocity of direction q *)
NonZeroComponents(v, q) == Cardinality({d \in 1 .. 3 : VelocityVector(v, q)[d] # 0})

(* C16: the 19 weights sum to exactly 1; in every variant the weight of      *)
(* direction i is 1/3 when its velocity is the zero vector, 1/18 when it    *)
(* has one non-zero component and 1/36 when it has two; the 19 velocity     *)
(* vectors are pairwise distinct, 1 at rest, 6 face and 12 edge vectors.    *)
C16_WeightsMatchVelocities ==
  /\ DOMAIN LATTICE_WEIGHTS = Q
  /\ RSum(LATTICE_WEIGHTS) = One
  /\ \A q \in Q :
       LATTICE_WEIGHTS[q] =
         IF NonZeroComponents(variant, q) = 0 THEN R(1, 3)
         ELSE IF NonZeroComponents(variant, q) = 1 THEN R(1, 18)
         ELSE R(1, 36)
  /\ \A p \in Q : \A q \in Q : p # q => VelocityVector(variant, p) # VelocityVector(variant, q)
  /\ Cardinality({q \in Q : NonZeroComponents(variant, q) = 0}) = 1
  /\ Cardinality({q \in Q : NonZeroComponents(variant, q) = 1}) = 6
  /\ Cardinality({q \in Q : NonZeroComponents(variant, q) = 2}) = 12

C16_Witness ==
  /\ pc = "overwrite"
  /\ variant = "MRT_LBM_in_3D"
  /\ NonZeroComponents(variant, 9) = 2
  /\ LATTICE_WEIGHTS[9] = R(1, 36)
  /\ equilibrium_discrete_velocities[Centre][9] # equilibrium_discrete_velocities[Centre][1]

(* ---- C17, C18, C19: runs from setups outside the physical range ---- *)

(* some cell of the field has a non-finite population or a density <= 0 *)
Diverged(dv) ==
  \E c \in Cells :
    \/ \E q \in Q : ~Finite(dv[c][q])
    \/ get_density(dv)[c][1] <= 0

(* C17: whenever during a step of a run some cell has density <= 0 or some  *)
(* population is non-finite, the run stops at that step: no step of the run *)
(* is computed from a field with such a cell.                               *)
C17_DivergenceIsFatal ==
  (i >= 1 /\ pc # "done") => ~Diverged(run_discrete_velocities_prev)

(* 1 - u_x <= 0 for the x velocity imposed at some inlet cell *)
InvalidInflow ==
  \E c \in Cells : c[1] = 0 /\ RSub(One, ImposedInletUx(c))[1] <= 0

(* C18: if the x velocity imposed at some inlet cell has 1 - u_x <= 0, the  *)
(* run ends with an error at the density reconstruction of the first step:  *)
(* no later sub-step and no later step uses a density obtained from the     *)
(* division.                                                                *)
C18_InvalidInflowIsFatal ==
  InvalidInflow => (i = 0 /\ pc \in {"outflow", "moments", "inflow"})

(* the viscosity is <= 0 or the relaxation rate lies outside (0, 2) *)
InvalidRelaxation ==
  \/ KINEMATIC_VISCOSITY[1] <= 0
  \/ ~Finite(RELAXATION_OMEGA)
  \/ RELAXATION_OMEGA[1] <= 0
  \/ RELAXATION_OMEGA[1] >= 2 * RELAXATION_OMEGA[2]

(* C19: a kinematic viscosity <= 0 or a relaxation rate outside (0, 2) is   *)
(* rejected before the first iteration: no sub-step of update is executed   *)
(* with such parameters.                                                    *)
C19_SetupIsValidated ==
  InvalidRelaxation => (i = 0 /\ pc = "outflow")

(* ---- C20: a velocity table with a direction that has no opposite ---- *)

(* some direction of the table has no direction of exactly negated velocity *)
LacksNegationPartner ==
  \E q \in Q : NegationMatchesIn(lattice_velocities, q) = {}

(* C20: if some direction of the velocity table has no direction with the   *)
(* exactly negated velocity, building the opposite map ends with an error   *)
(* and run is not reached, in the notebooks that compute the map and in the *)
(* notebooks that hard-code it.                                             *)
C20_LatticeFailsFast ==
  LacksNegationPartner => pc \in {"lattice", "error"}

-----------------------------------------------------------------------------
(* The drag computation of src/unnamed/part_001 on its own: one iteration   *)
(* of run for every obstacle of at most one cell, for an obstacle of two    *)
(* cells, for a column that closes onto itself through the periodic x       *)
(* boundary, and for the mask that leaves no fluid cell.                    *)

ForceMasks ==
  {{}} \cup {{c} : c \in Cells} \cup Masks
       \cup {{c \in Cells : c[2] = 0 /\ c[3] = 0}, Cells}

ForceInit ==
  /\ variant = "part_001"
  /\ LatticeBuilt
  /\ OBSTACLE_MASK \in ForceMasks
  /\ KINEMATIC_VISCOSITY = R(1, 18)
  /\ HORIZONTAL_INFLOW_VELOCITY \in InflowVelocities
  /\ NOISE = [yz \in Ys \X Zs |-> Zero]
  /\ N_ITERATIONS = 1
  /\ run_discrete_velocities_prev \in
       InputFields(variant, HORIZONTAL_INFLOW_VELOCITY, NOISE)
  /\ ForceRepresentable(run_discrete_velocities_prev)
  /\ PlotNever
  /\ MasksBuilt
  /\ NoOutputs
  /\ i = 0
  /\ pc = "outflow"
  /\ discrete_velocities_prev = run_discrete_velocities_prev
  /\ density_prev = Unset
  /\ macroscopic_velocities_prev = Unset
  /\ equilibrium_discrete_velocities = Unset
  /\ discrete_velocities_post_collision = Unset
  /\ discrete_velocities_streamed = Unset

ForceSpec == ForceInit /\ [][Next]_vars

-----------------------------------------------------------------------------
(* Properties of the momentum exchange, the stress, the return value and    *)
(* the plots                                                                *)

(* the cell population q of cell c has come from: c - e_q, periodic *)
Upstream(c, q) ==
  <<(c[1] - e_x(q) + NX) % NX, (c[2] - e_y(q) + NY) % NY, (c[3] - e_z(q) + NZ) % NZ>>

(* C21: in src/unnamed/part_001, for every obstacle mask, cell c and        *)
(* direction q, MOMENTUM_EXCHANGE_MASK_IN[c, q] is true exactly when c is   *)
(* an obstacle cell and c - e_q (periodic) is a fluid cell, and             *)
(* MOMENTUM_EXCHANGE_MASK_OUT[c, q] is true exactly when c is a fluid cell   *)
(* and c - e_q is an obstacle cell.                                         *)
C21_MomentumExchangeMasks ==
  variant = "part_001" =>
    \A c \in Cells : \A q \in Q :
       /\ MOMENTUM_EXCHANGE_MASK_IN[c][q]
            = (c \in OBSTACLE_MASK /\ Upstream(c, q) \notin OBSTACLE_MASK)
       /\ MOMENTUM_EXCHANGE_MASK_OUT[c][q]
            = (c \notin OBSTACLE_MASK /\ Upstream(c, q) \in OBSTACLE_MASK)

(* the masks of an obstacle of several cells: some pairs enter it, some     *)
(* leave it, and some populations move from obstacle cell to obstacle cell  *)
C21_Witness ==
  /\ variant = "part_001"
  /\ Cardinality(OBSTACLE_MASK) > 1
  /\ \E c \in Cells : \E q \in Q : MOMENTUM_EXCHANGE_MASK_IN[c][q]
  /\ \E c \in Cells : \E q \in Q : MOMENTUM_EXCHANGE_MASK_OUT[c][q]
  /\ \E c \in OBSTACLE_MASK : \E q \in Q \ {0} :
        Upstream(c, q) \in OBSTACLE_MASK /\ ~MOMENTUM_EXCHANGE_MASK_IN[c][q]

(* the pairs (cell, direction) whose population has crossed the obstacle   *)
(* boundary inwards, respectively outwards, read from the obstacle mask     *)
Entering(c, q) == c \in OBSTACLE_MASK /\ Upstream(c, q) \notin OBSTACLE_MASK
Leaving(c, q) == c \notin OBSTACLE_MASK /\ Upstream(c, q) \in OBSTACLE_MASK

(* sum over the entering pairs of e_q[d] * pop plus sum over the leaving    *)
(* pairs of e_opposite(q)[d] * pop = -e_q[d] * pop                          *)
ExchangedMomentum(dv, d) ==
  RAdd(RSum([k \in 0 .. NX * NY * NZ - 1 |->
         RSum([q \in Q |-> IF Entering(CellAt(k), q)
                           THEN RMul(I(VelocityVector(variant, q)[d + 1]), dv[CellAt(k)][q])
                           ELSE Zero])]),
       RSum([k \in 0 .. NX * NY * NZ - 1 |->
         RSum([q \in Q |-> IF Leaving(CellAt(k), q)
                           THEN RMul(I(-VelocityVector(variant, q)[d + 1]), dv[CellAt(k)][q])
                           ELSE Zero])]))

ForceIsExchangedMomentum(dv) ==
  LET force == get_force(Lattice(variant), dv, MOMENTUM_EXCHANGE_MASK_IN,
                         MOMENTUM_EXCHANGE_MASK_OUT)
  IN /\ DOMAIN force = 0 .. 2
     /\ \A d \in 0 .. 2 : force[d] = ExchangedMomentum(dv, d)
     /\ OBSTACLE_MASK = {} => \A d \in 0 .. 2 : force[d] = Zero

(* C22: in src/unnamed/part_001 get_force returns, for the field run is     *)
(* called with and for the field update returns, the 3-vector sum over the  *)
(* pairs of MOMENTUM_EXCHANGE_MASK_IN of e_i * pop plus the sum over the    *)
(* pairs of MOMENTUM_EXCHANGE_MASK_OUT of e_opposite(i) * pop, the zero     *)
(* vector when the obstacle mask is empty; run stores its x component; and  *)
(* no step of update or run changes the two masks.                          *)
C22_ForceIsMomentumExchange ==
  /\ [](variant = "part_001" =>
          /\ ForceIsExchangedMomentum(run_discrete_velocities_prev)
          /\ pc = "return" => ForceIsExchangedMomentum(discrete_velocities_streamed)
          /\ pc = "done" =>
               horizontal_force = ExchangedMomentum(discrete_velocities_streamed, 0))
  /\ [][UNCHANGED <<MOMENTUM_EXCHANGE_MASK_IN, MOMENTUM_EXCHANGE_MASK_OUT>>]_vars

(* run has computed a force with a non-zero x component on an obstacle *)
C22_Witness ==
  /\ variant = "part_001"
  /\ pc = "done"
  /\ OBSTACLE_MASK # {}
  /\ horizontal_force # Unset
  /\ horizontal_force # Zero
  /\ \E c \in Cells : \E q \in Q : MOMENTUM_EXCHANGE_MASK_OUT[c][q]

(* C23: for every iteration count N >= 1 run applies update N times, each   *)
(* application starting from the field the one before returned, then stops  *)
(* and returns the final population field, in every notebook variant.       *)
C23_RunReturnsFinalField ==
  /\ pc = "outflow" /\ i > 0 => discrete_velocities_prev = run_discrete_velocities_prev
  /\ pc = "done" =>
       /\ i = N_ITERATIONS
       /\ run_discrete_velocities_prev = discrete_velocities_streamed
       /\ returned = discrete_velocities_streamed

(* One call of update on its own: a run of a single iteration that does not *)
(* plot, in every notebook, for every obstacle, viscosity, noise and input  *)
(* field of Init.                                                           *)
UpdateInit ==
  /\ variant \in Variants
  /\ LatticeBuilt
  /\ OBSTACLE_MASK \in Masks
  /\ KINEMATIC_VISCOSITY \in Viscosities
  /\ HORIZONTAL_INFLOW_VELOCITY \in InflowVelocities
  /\ NOISE \in NoiseFields
  /\ N_ITERATIONS = 1
  /\ run_discrete_velocities_prev \in
       InputFields(variant, HORIZONTAL_INFLOW_VELOCITY, NOISE)
  /\ ForceRepresentable(run_discrete_velocities_prev)
  /\ PlotNever
  /\ MasksBuilt
  /\ NoOutputs
  /\ i = 0
  /\ pc = "outflow"
  /\ discrete_velocities_prev = run_discrete_velocities_prev
  /\ density_prev = Unset
  /\ macroscopic_velocities_prev = Unset
  /\ equilibrium_discrete_velocities = Unset
  /\ discrete_velocities_post_collision = Unset
  /\ discrete_velocities_streamed = Unset

UpdateSpec == UpdateInit /\ [][Next]_vars

(* the streaming loop with the directions taken from the last to the first *)
RECURSIVE StreamLoopDown(_, _, _, _, _)
StreamLoopDown(L, streamed, post, e, n) ==
  IF n = N_DISCRETE_VELOCITIES THEN streamed
  ELSE StreamStep(L, StreamLoopDown(L, streamed, post, e, n + 1), post, e, n)

(* direction q of the field rolled along axis 2 first and axis 0 last *)
RolledAxesReversed(post, e, q) ==
  RollAxis(RollAxis(RollAxis(Table([c \in Cells |-> post[c][q]]),
                             e[2][q], 2), e[1][q], 1), e[0][q], 0)

(* the cell of the snapshot the streamed population q of cell c is read     *)
(* from: the cell itself on the plane the slice [1:] leaves out, else the   *)
(* upstream neighbour, of the cell whose z index the trailing index of the  *)
(* two tutorials selects                                                    *)
StreamSource(c, q) ==
  IF variant = "part_000" THEN Upstream(c, q)
  ELSE IF c[1] = 0 THEN c
  ELSE IF variant = "part_001" THEN Upstream(c, q)
  ELSE Upstream(<<c[1], c[2], ClampZ(q)>>, q)

(* C24: streaming reads, for every direction, only the post-collision /     *)
(* bounce-back snapshot and writes to a separate result: every streamed     *)
(* population is the snapshot's population of the same direction at the     *)
(* source cell, the result is the same with the 19 directions processed in  *)
(* the reverse order and with the three axes rolled in the reverse order.   *)
C24_StreamingDoubleBuffered ==
  pc = "return" =>
    /\ \A c \in Cells : \A q \in Q :
         discrete_velocities_streamed[c][q]
           = discrete_velocities_post_collision[StreamSource(c, q)][q]
    /\ discrete_velocities_streamed
         = StreamLoopDown(Lattice(variant), discrete_velocities_post_collision,
                          discrete_velocities_post_collision, Lattice(variant).e, 0)
    /\ \A q \in Q :
         Rolled(discrete_velocities_post_collision, Lattice(variant).e, q)
           = RolledAxesReversed(discrete_velocities_post_collision, Lattice(variant).e, q)

(* a snapshot that differs between neighbouring cells and between           *)
(* directions has been streamed in part_000 and in part_001                 *)
C24_Witness ==
  /\ pc = "return"
  /\ variant \in {"part_000", "part_001"}
  /\ \E c \in Cells : \E q \in Q \ {0} :
        /\ c[1] > 0
        /\ discrete_velocities_streamed[c][q] # discrete_velocities_post_collision[c][q]
        /\ discrete_velocities_streamed[c][q]
             # discrete_velocities_post_collision[Upstream(c, q)][(q + 1) % N_DISCRETE_VELOCITIES]

NoNoise == [yz \in Ys \X Zs |-> Zero]

(* C25 (as claimed): in the notebooks that add NOISE the x velocity update  *)
(* imposes on the plane x = 0 is the one it would impose with NOISE = 0.    *)
C25_InletIgnoresNoise ==
  pc = "equilibrium" /\ Noisy(variant) =>
    \A c \in Cells : c[1] = 0 =>
      macroscopic_velocities_prev[c][0]
        = InletVelocity(Lattice(variant), macroscopic_velocities_prev,
                        VELOCITY_PROFILE_OF(variant, HORIZONTAL_INFLOW_VELOCITY, NoNoise),
                        HORIZONTAL_INFLOW_VELOCITY)[c][0]

(* C25 (amended): in LBM_in_3D the x velocity imposed on the plane x = 0 is *)
(* HORIZONTAL_INFLOW_VELOCITY whatever NOISE is; in MRT_LBM_in_3D the       *)
(* velocity imposed on the plane x = 0 is (HORIZONTAL_INFLOW_VELOCITY +     *)
(* NOISE[y, z], 0, 0), with the NOISE array of the setup.                   *)
C25_InletNoise ==
  pc = "equilibrium" =>
    \A c \in Cells : c[1] = 0 =>
      /\ variant = "LBM_in_3D" =>
           macroscopic_velocities_prev[c][0] = HORIZONTAL_INFLOW_VELOCITY
      /\ variant = "MRT_LBM_in_3D" =>
           macroscopic_velocities_prev[c]
             = Table([d \in 0 .. 2 |->
                 IF d = 0 THEN RAdd(HORIZONTAL_INFLOW_VELOCITY, NOISE[<<c[2], c[3]>>])
                 ELSE Zero])

(* the inlet step of MRT_LBM_in_3D has imposed a velocity that contains a   *)
(* non-zero noise value                                                     *)
C25_Witness ==
  /\ pc = "equilibrium"
  /\ variant = "MRT_LBM_in_3D"
  /\ \E c \in Cells :
       /\ c[1] = 0
       /\ NOISE[<<c[2], c[3]>>] # Zero
       /\ macroscopic_velocities_prev[c][0] # HORIZONTAL_INFLOW_VELOCITY

(* (1 - w/2) * sum over q of e_q[a] * e_q[b] * (pop_q - eq_q) at one cell *)
StressComponent(pops, eq, w, a, b) ==
  RMul(RSub(One, RDiv(w, I(2))),
       RSum([q \in Q |->
          RMul(I(VelocityVector(variant, q)[a + 1] * VelocityVector(variant, q)[b + 1]),
               RSub(pops[q], eq[q]))]))

(* the tensor field is the one of the formula, symmetric, and zero where    *)
(* the populations are the equilibrium                                      *)
IsStressOf(stress_tensor, dv, eq, w) ==
  \A c \in Cells :
    /\ \A a \in 0 .. 2 : \A b \in 0 .. 2 :
         /\ stress_tensor[c][a][b] = StressComponent(dv[c], eq[c], w, a, b)
         /\ stress_tensor[c][a][b] = stress_tensor[c][b][a]
    /\ dv[c] = eq[c] => \A a \in 0 .. 2 : \A b \in 0 .. 2 : stress_tensor[c][a][b] = Zero

StressOfMoments(dv, u, density) ==
  IsStressOf(get_stress_tensor(Lattice(variant), dv, u, density, RELAXATION_OMEGA),
             dv, get_equilibrium_discrete_velocities(Lattice(variant), u, density),
             RELAXATION_OMEGA)

StressOfDensity(dv, density) ==
  StressOfMoments(dv, get_macroscopic_velocities(Lattice(variant), dv, density), density)

(* C26: in src/unnamed/part_001 get_stress_tensor returns at every cell and *)
(* for every pair of axes (a, b) the value (1 - RELAXATION_OMEGA/2) * sum   *)
(* over i of e_i[a] * e_i[b] * (pop_i - eq_i), eq being the equilibrium of  *)
(* the velocity and density passed in; the tensor is symmetric and is zero  *)
(* at every cell whose populations equal that equilibrium. Checked for the  *)
(* field run starts from with the inflow profile and unit density, and for  *)
(* the field run plots with its own density and velocity.                   *)
C26_StressTensor ==
  variant = "part_001" =>
    /\ pc = "outflow" /\ i = 0 =>
         StressOfMoments(run_discrete_velocities_prev, VELOCITY_PROFILE, Ones)
    /\ pc = "done" /\ plotted # {} =>
         StressOfDensity(discrete_velocities_streamed,
                         get_density(discrete_velocities_streamed))

(* run has plotted a field with a cell out of equilibrium, where the stress *)
(* has a non-zero shear component, and a cell in equilibrium                *)
C26_Witness ==
  /\ variant = "part_001"
  /\ pc = "done"
  /\ plotted # {}
  /\ \E c \in Cells : \E a \in 0 .. 2 : \E b \in 0 .. 2 :
        a # b /\ strain_rate_tensor_LB[c][a][b] # Zero
  /\ \E c \in Cells : \A a \in 0 .. 2 : \A b \in 0 .. 2 :
        strain_rate_tensor_LB[c][a][b] = Zero

(* A second input of update: the field dv with the planes x >= 1 taken from *)
(* another input field.                                                     *)
InnerReplaced(dv) ==
  LET other == IF dv = UniformField
               THEN InputField(variant, HORIZONTAL_INFLOW_VELOCITY, NOISE, 0)
               ELSE UniformField
  IN Table([c \in Cells |-> IF c[1] >= 1 THEN other[c] ELSE dv[c]])

InletPlane(dv) == [c \in {k \in Cells : k[1] = 0} |-> dv[c]]

(* C27: in part_001, LBM_in_3D and MRT_LBM_in_3D every population on the    *)
(* plane x = 0 of the field update returns, in all 19 directions, is that   *)
(* cell's own post-collision / bounce-back value, and the plane x = 0 of    *)
(* the result is the same for an input changed on the planes x >= 1.        *)
C27_InletPlaneNotStreamed ==
  pc = "return" /\ variant # "part_000" =>
    /\ InletPlane(discrete_velocities_streamed)
         = InletPlane(discrete_velocities_post_collision)
    /\ i = 0 =>
         InletPlane(UpdateOf(InnerReplaced(run_discrete_velocities_prev)))
           = InletPlane(discrete_velocities_streamed)

(* update has returned a field whose planes x >= 1 have been streamed while *)
(* the plane x = 0, whose upstream neighbours hold other values, has not    *)
C27_Witness ==
  /\ pc = "return"
  /\ i = 0
  /\ variant \in {"part_001", "MRT_LBM_in_3D"}
  /\ discrete_velocities_streamed # discrete_velocities_post_collision
  /\ \E c \in Cells : \E q \in Q :
        /\ c[1] = 0
        /\ discrete_velocities_post_collision[Upstream(c, q)][q]
             # discrete_velocities_streamed[c][q]
  /\ UpdateOf(InnerReplaced(run_discrete_velocities_prev))
        # discrete_velocities_streamed

(* density and momentum of one cell are the same in both fields *)
SameConservedMoments(a, b) ==
  \A c \in Cells :
    /\ RSum(a[c]) = RSum(b[c])
    /\ \A d \in 0 .. 2 :
         MomentumCell(LATTICE_VELOCITIES(variant), a[c])[d]
           = MomentumCell(LATTICE_VELOCITIES(variant), b[c])[d]

(* C28: in MRT_LBM_in_3D rows 0, 3, 5 and 7 of M are the all-ones vector    *)
(* and the x, y and z components of the lattice velocities in the order of  *)
(* that notebook, the diagonal of S is 0 at exactly these four positions    *)
(* and RELAXATION_OMEGA at positions 9, 11, 13, 14, 15, and the MRT         *)
(* collision leaves density and momentum of every cell unchanged, with the  *)
(* equilibrium of update (reconstructed density on the inlet plane) and     *)
(* with another field in the place of the equilibrium.                      *)
C28_MRTConservedMoments ==
  variant = "MRT_LBM_in_3D" =>
    /\ \A q \in Q :
         /\ M[0][q] = 1
         /\ M[3][q] = LATTICE_VELOCITIES(variant)[0][q]
         /\ M[5][q] = LATTICE_VELOCITIES(variant)[1][q]
         /\ M[7][q] = LATTICE_VELOCITIES(variant)[2][q]
    /\ {k \in Q : S_diag(RELAXATION_OMEGA)[k] = Zero} = {0, 3, 5, 7}
    /\ \A k \in {9, 11, 13, 14, 15} : S_diag(RELAXATION_OMEGA)[k] = RELAXATION_OMEGA
    /\ pc = "bounce" =>
         /\ SameConservedMoments(discrete_velocities_post_collision,
                                 discrete_velocities_prev)
         /\ SameConservedMoments(
              CollideMRT(discrete_velocities_prev, UniformField,
                         COLLISION_OPERATOR(RELAXATION_OMEGA)),
              discrete_velocities_prev)

(* the MRT collision has changed a field whose equilibrium on the inlet     *)
(* plane has another density than the cell                                  *)
C28_Witness ==
  /\ variant = "MRT_LBM_in_3D"
  /\ pc = "bounce"
  /\ discrete_velocities_post_collision # discrete_velocities_prev
  /\ \E c \in Cells :
       /\ c[1] = 0
       /\ RSum(equilibrium_discrete_velocities[c]) # RSum(discrete_velocities_prev[c])
       /\ discrete_velocities_post_collision[c] # discrete_velocities_prev[c]

(* the (cell, direction) pairs a mask selects *)
Selected(mask) == {p \in Cells \X Q : mask[p[1]][p[2]]}

(* C29: in src/unnamed/part_001, for every obstacle mask, (c, i) is in      *)
(* MOMENTUM_EXCHANGE_MASK_IN exactly when (c - e_i,                          *)
(* OPPOSITE_LATTICE_INDICES[i]) is in MOMENTUM_EXCHANGE_MASK_OUT (periodic   *)
(* neighbours); both masks select the same number of pairs; IN selects only *)
(* obstacle cells, OUT only fluid cells, and direction 0 is in neither.     *)
C29_MasksCorrespond ==
  variant = "part_001" =>
    /\ \A c \in Cells : \A q \in Q :
         MOMENTUM_EXCHANGE_MASK_IN[c][q]
           = MOMENTUM_EXCHANGE_MASK_OUT[Upstream(c, q)][opposite_lattice_indices[q]]
    /\ Cardinality(Selected(MOMENTUM_EXCHANGE_MASK_IN))
         = Cardinality(Selected(MOMENTUM_EXCHANGE_MASK_OUT))
    /\ \A p \in Selected(MOMENTUM_EXCHANGE_MASK_IN) : p[1] \in OBSTACLE_MASK /\ p[2] # 0
    /\ \A p \in Selected(MOMENTUM_EXCHANGE_MASK_OUT) : p[1] \notin OBSTACLE_MASK /\ p[2] # 0

(* the masks of an obstacle of several cells select pairs, fewer than 18    *)
(* for each obstacle cell                                                   *)
C29_Witness ==
  /\ variant = "part_001"
  /\ Cardinality(OBSTACLE_MASK) > 1
  /\ OBSTACLE_MASK # Cells
  /\ Cardinality(Selected(MOMENTUM_EXCHANGE_MASK_IN)) > 0
  /\ Cardinality(Selected(MOMENTUM_EXCHANGE_MASK_OUT))
       < (N_DISCRETE_VELOCITIES - 1) * Cardinality(OBSTACLE_MASK)

-----------------------------------------------------------------------------
(* The plots of run for other plotting parameters than a plot after every   *)
(* iteration: runs of MaxRun iterations of the steady channel flow.         *)

MaxRun == 4
MaxPlot == 2
MaxSkip == 3

SamplingInit ==
  /\ variant \in Variants
  /\ LatticeBuilt
  /\ OBSTACLE_MASK = {}
  /\ KINEMATIC_VISCOSITY = R(1, 6)
  /\ HORIZONTAL_INFLOW_VELOCITY \in InflowVelocities
  /\ NOISE = [yz \in Ys \X Zs |-> Zero]
  /\ N_ITERATIONS = MaxRun
  /\ PLOT_EVERY_N_STEPS \in 1 .. MaxPlot
  /\ SKIP_FIRST_N_ITERATIONS \in 0 .. MaxSkip
  /\ run_discrete_velocities_prev =
       InputField(variant, HORIZONTAL_INFLOW_VELOCITY, NOISE, 0)
  /\ MasksBuilt
  /\ NoOutputs
  /\ i = 0
  /\ pc = "outflow"
  /\ discrete_velocities_prev = run_discrete_velocities_prev
  /\ density_prev = Unset
  /\ macroscopic_velocities_prev = Unset
  /\ equilibrium_discrete_velocities = Unset
  /\ discrete_velocities_post_collision = Unset
  /\ discrete_velocities_streamed = Unset

SamplingSpec == SamplingInit /\ [][Next]_vars

====
